---- MODULE Spec2Model ----
(***************************************************************************)
(* CDR analyzer: the normalization pipeline of core/cdr_processor.py       *)
(* (CDRProcessor) driven by the worker of gui/main_window.py, as a state   *)
(* machine.  Text is a sequence of one-character strings; a CSV cell is    *)
(* either NaN (pandas' missing value) or a text.                           *)
(***************************************************************************)
EXTENDS Integers, Sequences, FiniteSets, TLC

\* ------------------------------------------------------------------ bounds
MaxRows == 2      \* data rows per input file
MaxFiles == 2     \* input files per batch
MaxRuleRows == 1  \* data rows of a file in the counterparty-rule runs
MaxVoteRows == 3  \* data rows of a file in the monitored-number runs
MaxTypeRows == 1  \* data rows of a file in the call-type runs
MaxTimeRows == 2  \* data rows of a file in the timestamp runs
MaxDurRows == 1   \* data rows of a file in the duration runs
MaxNumRows == 1   \* data rows of a file in the number-normalization runs
MaxIsdRows == 2   \* data rows of a file in the ISDCalls runs
MaxPreamble == 3  \* lines before the header of a file given line by line
MaxSheetRows == 2 \* data rows of a file in the Summary and Night/Day runs

\* ------------------------------------------------------------- text basics
Digits == <<"0", "1", "2", "3", "4", "5", "6", "7", "8", "9">>
UpperCase == <<"A", "B", "C", "D", "E", "F", "G", "H", "I", "J", "K", "L", "M",
               "N", "O", "P", "Q", "R", "S", "T", "U", "V", "W", "X", "Y", "Z">>
LowerCase == <<"a", "b", "c", "d", "e", "f", "g", "h", "i", "j", "k", "l", "m",
               "n", "o", "p", "q", "r", "s", "t", "u", "v", "w", "x", "y", "z">>

Range(s) == {s[i] : i \in DOMAIN s}

IsDigit(c) == c \in Range(Digits)
IsAlpha(c) == c \in Range(UpperCase) \cup Range(LowerCase)
IsSpace(c) == c \in {" ", "\t"}

\* str.lower()
lower(s) ==
    [i \in DOMAIN s |->
        IF s[i] \in Range(UpperCase)
        THEN LowerCase[CHOOSE k \in DOMAIN UpperCase : UpperCase[k] = s[i]]
        ELSE s[i]]

\* p in s   (substring test)
Contains(s, p) ==
    \E i \in 0..(Len(s) - Len(p)) : SubSeq(s, i + 1, i + Len(p)) = p

startswith(s, p) == Len(s) >= Len(p) /\ SubSeq(s, 1, Len(p)) = p
endswith(s, p) == Len(s) >= Len(p) /\ SubSeq(s, Len(s) - Len(p) + 1, Len(s)) = p

\* str.strip(): leading and trailing whitespace removed
RECURSIVE lstrip(_)
lstrip(s) == IF s # <<>> /\ IsSpace(s[1]) THEN lstrip(Tail(s)) ELSE s
RECURSIVE rstrip(_)
rstrip(s) ==
    IF s # <<>> /\ IsSpace(s[Len(s)]) THEN rstrip(SubSeq(s, 1, Len(s) - 1)) ELSE s
strip(s) == rstrip(lstrip(s))

\* str.strip("'")
RECURSIVE lstripq(_)
lstripq(s) == IF s # <<>> /\ s[1] = "'" THEN lstripq(Tail(s)) ELSE s
RECURSIVE rstripq(_)
rstripq(s) ==
    IF s # <<>> /\ s[Len(s)] = "'" THEN rstripq(SubSeq(s, 1, Len(s) - 1)) ELSE s
stripq(s) == rstripq(lstripq(s))

\* code-point order of the digit characters, and Python's str "<"
Ord(c) == CHOOSE k \in DOMAIN Digits : Digits[k] = c
RECURSIVE StrLess(_, _)
StrLess(s, t) ==
    IF t = <<>> THEN FALSE
    ELSE IF s = <<>> THEN TRUE
    ELSE IF s[1] = t[1] THEN StrLess(Tail(s), Tail(t))
    ELSE Ord(s[1]) < Ord(t[1])

\* --------------------------------------------------------------- CSV cells
\* read_csv(dtype=str) yields NaN for an empty cell; _pick yields NaN for
\* every row of an absent column.  A cell is <<>> (NaN) or <<text>>.
NaN == <<>>
Cell(t) == <<t>>
isna(c) == c = NaN

\* Series.astype(str): the text itself, and the text "nan" for NaN
astype_str(c) == IF isna(c) THEN <<"n", "a", "n">> ELSE c[1]

\* ------------------------------------------------------------ field parsers
\* re.sub(r"\D", "", str(num)); one leading "0" off; "91" off when len > 10
MSISDN_LEN == 10
\* (variant: every leading "0" is removed)
RECURSIVE lstrip0(_)
lstrip0(s) == IF s # <<>> /\ s[1] = "0" THEN lstrip0(Tail(s)) ELSE s
normalize_msisdn_all_zeros(num) ==
    LET s1 == lstrip0(SelectSeq(num, IsDigit))
    IN  IF Len(s1) > MSISDN_LEN /\ startswith(s1, <<"9", "1">>)
        THEN SubSeq(s1, 3, Len(s1)) ELSE s1
normalize_msisdn(num) ==
    LET s0 == SelectSeq(num, IsDigit)
        s1 == IF startswith(s0, <<"0">>) THEN Tail(s0) ELSE s0
    IN  IF Len(s1) > MSISDN_LEN /\ startswith(s1, <<"9", "1">>)
        THEN SubSeq(s1, 3, Len(s1)) ELSE s1

\* strip; "" is not a sender code; any letter makes one
contains_sender_code(s) ==
    LET st == strip(s)
    IN  IF st = <<>> THEN FALSE ELSE \E i \in DOMAIN st : IsAlpha(st[i])

\* re.sub(r"\s+", " ", str(s)).strip()
RECURSIVE collapse_ws(_)
collapse_ws(s) ==
    IF s = <<>> THEN <<>>
    ELSE IF IsSpace(s[1])
         THEN <<" ">> \o collapse_ws(lstrip(s))
         ELSE <<s[1]>> \o collapse_ws(Tail(s))
clean_text(s) == strip(collapse_ws(s))

\* ---------------------------------------------------------- date and time
\* int() of a text of decimal digits
RECURSIVE to_int(_)
to_int(s) == IF s = <<>> THEN 0 ELSE 10 * to_int(SubSeq(s, 1, Len(s) - 1)) + (Ord(s[Len(s)]) - 1)

AllDigits(s) == s # <<>> /\ \A i \in DOMAIN s : IsDigit(s[i])

\* str.split(sep) for a one-character separator
RECURSIVE split(_, _)
split(s, sep) ==
    IF \E i \in DOMAIN s : s[i] = sep
    THEN LET i == CHOOSE k \in DOMAIN s : s[k] = sep /\ \A j \in 1..(k - 1) : s[j] # sep
         IN  <<SubSeq(s, 1, i - 1)>> \o split(SubSeq(s, i + 1, Len(s)), sep)
    ELSE <<s>>

None == <<>>
NaT == <<>>

\* a one- or two-digit field of a strptime format (%H, %M, %S, %d, %m)
Field2(p) == AllDigits(p) /\ Len(p) <= 2

\* parse_time_field: "%H:%M:%S", then "%H:%M", then "%I:%M:%S %p" and
\* "%I:%M %p" (12-hour clock, one space before AM or PM), then bare HHMMSS and
\* bare HHMM; the text "nan" parses to NaT, whose .time() raises, so it
\* yields None
parse_time_field(x) ==
    LET s == stripq(strip(x))
        parts == split(s, ":")
        hms(h, m, sec) == IF h <= 23 /\ m <= 59 /\ sec <= 59 THEN <<h, m, sec>> ELSE None
        words == split(s, " ")
        clock == split(words[1], ":")
        ampm == IF Len(words) = 2 THEN lower(words[2]) ELSE <<>>
        hour12(h) == (h % 12) + (IF ampm = <<"p", "m">> THEN 12 ELSE 0)
    IN  IF Len(parts) = 3 /\ \A i \in 1..3 : Field2(parts[i])
        THEN hms(to_int(parts[1]), to_int(parts[2]), to_int(parts[3]))
        ELSE IF Len(parts) = 2 /\ \A i \in 1..2 : Field2(parts[i])
        THEN hms(to_int(parts[1]), to_int(parts[2]), 0)
        ELSE IF /\ ampm \in {<<"a", "m">>, <<"p", "m">>}
                /\ Len(clock) \in {2, 3}
                /\ \A i \in DOMAIN clock : Field2(clock[i])
                /\ to_int(clock[1]) \in 1..12
        THEN hms(hour12(to_int(clock[1])), to_int(clock[2]),
                 IF Len(clock) = 3 THEN to_int(clock[3]) ELSE 0)
        ELSE IF AllDigits(s) /\ Len(s) = 6
        THEN hms(to_int(SubSeq(s, 1, 2)), to_int(SubSeq(s, 3, 4)), to_int(SubSeq(s, 5, 6)))
        ELSE IF AllDigits(s) /\ Len(s) = 4
        THEN hms(to_int(SubSeq(s, 1, 2)), to_int(SubSeq(s, 3, 4)), 0)
        ELSE None

IsLeap(y) == (y % 4 = 0 /\ y % 100 # 0) \/ y % 400 = 0
DaysIn(m, y) ==
    IF m = 2 THEN (IF IsLeap(y) THEN 29 ELSE 28)
    ELSE IF m \in {4, 6, 9, 11} THEN 30 ELSE 31
ValidDate(y, m, d) == m \in 1..12 /\ d >= 1 /\ d <= DaysIn(m, y)

\* parse_date_field for texts of the shape D/M/YYYY: "." becomes "/", the
\* day-first reading is tried before the month-first one, None when neither
\* is a calendar date
parse_date_field(x) ==
    LET s0 == stripq(strip(x))
        s == [i \in DOMAIN s0 |-> IF s0[i] = "." THEN "/" ELSE s0[i]]
        parts == split(s, "/")
    IN  IF Len(parts) = 3 /\ Field2(parts[1]) /\ Field2(parts[2])
           /\ AllDigits(parts[3]) /\ Len(parts[3]) = 4
        THEN LET a == to_int(parts[1])
                 b == to_int(parts[2])
                 y == to_int(parts[3])
             IN  IF ValidDate(y, b, a) THEN <<y, b, a>>
                 ELSE IF ValidDate(y, a, b) THEN <<y, a, b>>
                 ELSE None
        ELSE None

\* ------------------------------------------------------------------ duration
\* a character that str.isdigit() accepts and int() rejects (U+00B2,
\* superscript two; the circled and superscript digits behave alike)
SUP_TWO == "sup2"
\* str.isdigit(): non-empty, every character a digit of any kind
isdigit(s) == s # <<>> /\ \A i \in DOMAIN s : IsDigit(s[i]) \/ s[i] = SUP_TWO

\* a conversion inside a try block: <<n>> for the value n, <<>> when it raised
Fails == <<>>
Value(n) == <<n>>

\* an optional sign in front of the rest
Unsigned(s) == IF s # <<>> /\ s[1] \in {"+", "-"} THEN Tail(s) ELSE s
Sign(s) == IF s # <<>> /\ s[1] = "-" THEN -1 ELSE 1

\* int(text): surrounding whitespace and one sign allowed, then decimal digits
py_int(p) ==
    LET q == strip(p)
    IN  IF AllDigits(Unsigned(q)) THEN Value(Sign(q) * to_int(Unsigned(q))) ELSE Fails

\* int(float(text)) for decimal notation: sign, digits, at most one "." with
\* digits on either side, truncated toward zero; "nan" and any other text fail
int_float(p) ==
    LET q == Unsigned(strip(p))
        parts == split(q, ".")
    IN  IF /\ Len(parts) <= 2
           /\ \A k \in DOMAIN parts : parts[k] = <<>> \/ AllDigits(parts[k])
           /\ \E k \in DOMAIN parts : parts[k] # <<>>
        THEN Value(Sign(strip(p)) * to_int(parts[1]))
        ELSE Fails

\* to_seconds(x) raises: isdigit() let the text through and int() rejects it
\* (the return of that branch is outside the try blocks)
to_seconds_raises(x) ==
    LET s == stripq(strip(x))
    IN  isdigit(s) /\ ~AllDigits(s)

\* to_seconds(x) on the text of the DurationRaw column, when it returns
to_seconds(x) ==
    LET s == stripq(strip(x))
        parts == split(s, ":")
        ints == [k \in DOMAIN parts |-> py_int(parts[k])]
        colon == IF \E k \in DOMAIN ints : ints[k] = Fails THEN Fails
                 ELSE IF Len(parts) = 3
                 THEN Value(ints[1][1] * 3600 + ints[2][1] * 60 + ints[3][1])
                 ELSE IF Len(parts) = 2 THEN Value(ints[1][1] * 60 + ints[2][1])
                 ELSE Fails
    IN  IF s = <<>> THEN 0
        ELSE IF isdigit(s) THEN to_int(s)
        ELSE IF colon # Fails THEN colon[1]
        ELSE IF int_float(s) # Fails THEN int_float(s)[1]
        ELSE 0

\* start_dt: NaT if either component failed, else the combined timestamp
combine_dt(d, t) == IF d = None \/ t = None THEN NaT ELSE d \o t

\* ascending order of two non-null timestamps (year, month, day, h, m, s)
RECURSIVE TupleLess(_, _)
TupleLess(a, b) ==
    IF a = <<>> \/ b = <<>> THEN FALSE
    ELSE IF a[1] = b[1] THEN TupleLess(Tail(a), Tail(b))
    ELSE a[1] < b[1]

\* ------------------------------------------------------------- night window
NIGHT_START == 18
NIGHT_END == 6

\* is_night_hour: False for a missing hour, else hour >= 18 or hour < 6
\* (variant: the start hour itself is not night)
is_night_hour_after_start(dt) ==
    IF dt = NaT THEN FALSE ELSE (dt[4] > NIGHT_START) \/ (dt[4] < NIGHT_END)
is_night_hour(dt) ==
    IF dt = NaT THEN FALSE ELSE (dt[4] >= NIGHT_START) \/ (dt[4] < NIGHT_END)

\* ---------------------------------------------------------------- call type
Kw(s, ks) == \E k \in ks : Contains(s, k)

\* the direction branch of derive_call_type: s is the lower-cased text
call_direction(s, is_sms) ==
    IF is_sms
    THEN IF Kw(s, {<<"s","m","s","i","n">>, <<"s","m","s","_","i","n">>,
                   <<"i","n","b","o","u","n","d">>,
                   <<"t","e","r","m","i","n","a","t">>, <<"m","t">>})
         THEN "IN"
         ELSE IF Kw(s, {<<"s","m","s","o","u","t">>, <<"s","m","s","_","o","u","t">>,
                        <<"m","o">>, <<"o","r","i","g">>})
         THEN "OUT"
         ELSE IF Contains(s, <<" ","i","n">>) \/ endswith(strip(s), <<"i","n">>)
         THEN "IN" ELSE "OUT"
    ELSE IF Kw(s, {<<"i","n","c","o","m","i","n","g">>, <<"m","t">>,
                   <<"t","e","r","m","i","n","a","t","i","n","g">>,
                   <<"a","_","i","n">>, <<"t","e","r","m">>,
                   <<" ","i","n">>, <<"-","i","n">>})
         THEN "IN"
         ELSE IF Kw(s, {<<"o","u","t","g","o","i","n","g">>, <<"m","o">>,
                        <<"o","r","i","g","i","n","a","t","i","n","g">>,
                        <<"a","_","o","u","t">>, <<"o","r","i","g">>,
                        <<" ","o","u","t">>, <<"-","o","u","t">>})
         THEN "OUT"
         ELSE "OUT"

\* derive_call_type(ct, toc) on the lower-cased text "<ct> <toc>"
\* (variant: only the call-type column is searched for "sms")
derive_call_type_ct_only(ct, toc) ==
    LET s == lower(ct \o <<" ">> \o toc)
        is_sms == Contains(lower(ct), <<"s", "m", "s">>)
    IN  <<(IF is_sms THEN "SMS" ELSE "CALL"), call_direction(s, is_sms)>>
derive_call_type(ct, toc) ==
    LET s == lower(ct \o <<" ">> \o toc)
        is_sms == Contains(s, <<"s", "m", "s">>)
    IN  <<(IF is_sms THEN "SMS" ELSE "CALL"), call_direction(s, is_sms)>>

IsSMS(ctype) == ctype[1] = "SMS"

\* ------------------------------------------------------ monitored number
\* Series.mode().iat[0]: the values of highest count, sorted ascending, first
\* one; IndexError on an empty series is caught and gives ""
Count(vals, v) == Cardinality({i \in DOMAIN vals : vals[i] = v})
Modes(vals) == {v \in Range(vals) : \A w \in Range(vals) : Count(vals, v) >= Count(vals, w)}
\* (variant: the first value encountered among the most frequent ones)
mode_first_encountered(vals) ==
    IF vals = <<>> THEN <<>>
    ELSE vals[CHOOSE k \in DOMAIN vals :
                /\ vals[k] \in Modes(vals)
                /\ \A j \in 1..(k - 1) : vals[j] \notin Modes(vals)]
mode_first(vals) ==
    IF vals = <<>> THEN <<>>
    ELSE CHOOSE v \in Modes(vals) : \A w \in Modes(vals) : w = v \/ StrLess(v, w)

NonEmpty(t) == t # <<>>

\* top_target of standardize_rows: the mode of the non-empty Target_norm values
\* when there is one, else the mode of the non-empty A_norm and B_norm values
\* (variant: the target column is ignored, the parties always vote)
top_target_parties_only(target_norm, a_norm, b_norm) ==
    mode_first(SelectSeq(a_norm \o b_norm, NonEmpty))
top_target(target_norm, a_norm, b_norm) ==
    IF SelectSeq(target_norm, NonEmpty) # <<>>
    THEN mode_first(SelectSeq(target_norm, NonEmpty))
    ELSE mode_first(SelectSeq(a_norm \o b_norm, NonEmpty))

\* ----------------------------------------------------------- counterparty
\* pick_counterparty(row): sender code of an SMS first, then the number
\* opposite to the monitored number, then any number, then the raw text
\* (variant: the number rules run before the sender-code rules)
pick_counterparty_numbers_first(Araw, Braw, A_norm, B_norm, CdrNo, CallTypeStd) ==
    LET a_raw == clean_text(Araw)
        b_raw == clean_text(Braw)
    IN  IF A_norm = CdrNo /\ B_norm # <<>> THEN B_norm
        ELSE IF B_norm = CdrNo /\ A_norm # <<>> THEN A_norm
        ELSE IF B_norm # <<>> THEN B_norm
        ELSE IF A_norm # <<>> THEN A_norm
        ELSE IF IsSMS(CallTypeStd) /\ contains_sender_code(b_raw) THEN b_raw
        ELSE IF IsSMS(CallTypeStd) /\ contains_sender_code(a_raw) THEN a_raw
        ELSE IF b_raw # <<>> THEN b_raw
        ELSE a_raw
\* (variant: the any-number fallback prefers the A-party)
pick_counterparty_prefers_a(Araw, Braw, A_norm, B_norm, CdrNo, CallTypeStd) ==
    LET a_raw == clean_text(Araw)
        b_raw == clean_text(Braw)
    IN  IF IsSMS(CallTypeStd) /\ contains_sender_code(b_raw) THEN b_raw
        ELSE IF IsSMS(CallTypeStd) /\ contains_sender_code(a_raw) THEN a_raw
        ELSE IF A_norm = CdrNo /\ B_norm # <<>> THEN B_norm
        ELSE IF B_norm = CdrNo /\ A_norm # <<>> THEN A_norm
        ELSE IF A_norm # <<>> THEN A_norm
        ELSE IF B_norm # <<>> THEN B_norm
        ELSE IF b_raw # <<>> THEN b_raw
        ELSE a_raw
pick_counterparty(Araw, Braw, A_norm, B_norm, CdrNo, CallTypeStd) ==
    LET a_raw == clean_text(Araw)
        b_raw == clean_text(Braw)
        a_num == A_norm
        b_num == B_norm
        t == CdrNo
    IN  IF IsSMS(CallTypeStd) /\ contains_sender_code(b_raw) THEN b_raw
        ELSE IF IsSMS(CallTypeStd) /\ contains_sender_code(a_raw) THEN a_raw
        ELSE IF a_num = t /\ b_num # <<>> THEN b_num
        ELSE IF b_num = t /\ a_num # <<>> THEN a_num
        ELSE IF b_num # <<>> THEN b_num
        ELSE IF a_num # <<>> THEN a_num
        ELSE IF b_raw # <<>> THEN b_raw
        ELSE a_raw

\* --------------------------------------------------------- standardize_rows
\* df: the rows of one loaded file, one cell per canonical column.  The
\* result has one record per input row, in row order.
standardize_rows(df) ==
    LET TargetRaw == [i \in DOMAIN df |-> astype_str(df[i].target_number)]
        Araw == [i \in DOMAIN df |-> astype_str(df[i].a_party)]
        Braw == [i \in DOMAIN df |-> astype_str(df[i].b_party)]
        A_norm == [i \in DOMAIN df |-> normalize_msisdn(Araw[i])]
        B_norm == [i \in DOMAIN df |-> normalize_msisdn(Braw[i])]
        Target_norm == [i \in DOMAIN df |-> normalize_msisdn(TargetRaw[i])]
        CdrNo == top_target(Target_norm, A_norm, B_norm)
    IN  [i \in DOMAIN df |->
            LET CallTypeRaw == astype_str(df[i].call_type)
                TOC == astype_str(df[i].toc)
                CallDateRaw == astype_str(df[i].call_date)
                CallTimeRaw == astype_str(df[i].call_time)
                DurationRaw == astype_str(df[i].duration)
                ctype == derive_call_type(CallTypeRaw, TOC)
                dt == combine_dt(parse_date_field(CallDateRaw), parse_time_field(CallTimeRaw))
            IN  [Araw |-> Araw[i], Braw |-> Braw[i],
                 CallDateRaw |-> CallDateRaw, CallTimeRaw |-> CallTimeRaw,
                 DurationRaw |-> DurationRaw,
                 CallTypeRaw |-> CallTypeRaw, TOC |-> TOC,
                 Duration |-> to_seconds(DurationRaw),
                 A_norm |-> A_norm[i], B_norm |-> B_norm[i],
                 Target_norm |-> Target_norm[i],
                 CallTypeStd |-> ctype,
                 CdrNo |-> CdrNo,
                 Counterparty |-> pick_counterparty(Araw[i], Braw[i], A_norm[i], B_norm[i],
                                                    CdrNo, ctype),
                 start_dt |-> dt,
                 IsNight |-> is_night_hour(dt)]]

\* standardize_rows(df) raises: the exception of a row's conversion leaves
\* Series.apply and is re-raised by the except clause
standardize_raises(df) ==
    \E i \in DOMAIN df : to_seconds_raises(astype_str(df[i].duration))

\* ------------------------------------------------- header row and aliases
\* ALIASES, for the canonical fields standardize_rows reads in this model
ALIASES ==
    [target_number |->
        << <<"t", "a", "r", "g", "e", "t", " ", "/", "a", " ", "p", "a", "r", "t", "y", " ", "n", "u", "m", "b", "e", "r">>,
           <<"t", "a", "r", "g", "e", "t", " ", "n", "o">>,
           <<"c", "d", "r", " ", "p", "a", "r", "t", "y", " ", "n", "o">>,
           <<"t", "a", "r", "g", "e", "t">> >>,
     a_party |->
        << <<"c", "a", "l", "l", "i", "n", "g", " ", "p", "a", "r", "t", "y", " ", "t", "e", "l", "e", "p", "h", "o", "n", "e", " ", "n", "u", "m", "b", "e", "r">>,
           <<"a", " ", "p", "a", "r", "t", "y", " ", "n", "u", "m", "b", "e", "r">>,
           <<"m", "s", "i", "s", "d", "n", " ", "a">>,
           <<"a", "_", "n", "u", "m", "b", "e", "r">>,
           <<"c", "a", "l", "l", "i", "n", "g", " ", "p", "a", "r", "t", "y">> >>,
     b_party |->
        << <<"c", "a", "l", "l", "e", "d", " ", "p", "a", "r", "t", "y", " ", "t", "e", "l", "e", "p", "h", "o", "n", "e", " ", "n", "u", "m", "b", "e", "r">>,
           <<"b", " ", "p", "a", "r", "t", "y", " ", "n", "u", "m", "b", "e", "r">>,
           <<"b", " ", "p", "a", "r", "t", "y", " ", "n", "o">>,
           <<"c", "a", "l", "l", "e", "d", " ", "p", "a", "r", "t", "y">> >>,
     call_date |->
        << <<"c", "a", "l", "l", " ", "d", "a", "t", "e">>,
           <<"d", "a", "t", "e">> >>,
     call_time |->
        << <<"c", "a", "l", "l", " ", "t", "i", "m", "e">>,
           <<"t", "i", "m", "e">>,
           <<"c", "a", "l", "l", " ", "i", "n", "i", "t", "i", "a", "t", "i", "o", "n", " ", "t", "i", "m", "e">>,
           <<"s", "t", "a", "r", "t", " ", "t", "i", "m", "e">> >>,
     duration |->
        << <<"c", "a", "l", "l", " ", "d", "u", "r", "a", "t", "i", "o", "n">>,
           <<"d", "u", "r", "(", "s", ")">>,
           <<"d", "u", "r", "a", "t", "i", "o", "n">>,
           <<"h", "o", "l", "d", " ", "t", "i", "m", "e", " ", "(", "s", "e", "c", ")">>,
           <<"d", "u", "r", "a", "t", "i", "o", "n", "s">> >>,
     call_type |->
        << <<"c", "a", "l", "l", " ", "t", "y", "p", "e">>,
           <<"s", "e", "r", "v", "i", "c", "e", " ", "t", "y", "p", "e">>,
           <<"e", "v", "e", "n", "t", " ", "t", "y", "p", "e">>,
           <<"d", "i", "r">>,
           <<"t", "o", "c">>,
           <<"t", "y", "p", "e", " ", "o", "f", " ", "c", "o", "n", "n", "e", "c", "t", "i", "o", "n">> >>,
     toc |->
        << <<"t", "o", "c">>,
           <<"t", "y", "p", "e", " ", "o", "f", " ", "c", "o", "n", "n", "e", "c", "t", "i", "o", "n">> >>]
Fields == DOMAIN ALIASES

\* the phrases detect_header_start looks for
ANCHORS ==
    { <<"c", "a", "l", "l", "i", "n", "g", " ", "p", "a", "r", "t", "y", " ", "t", "e", "l", "e", "p", "h", "o", "n", "e", " ", "n", "u", "m", "b", "e", "r">>,
      <<"t", "a", "r", "g", "e", "t", " ", "/", "a", " ", "p", "a", "r", "t", "y", " ", "n", "u", "m", "b", "e", "r">>,
      <<"t", "a", "r", "g", "e", "t", " ", "n", "o">> }

\* A file given line by line: a line is the sequence of its comma-separated
\* fields. No anchor has a comma, so a line contains an anchor iff one of its
\* fields does.
HasLines(f) == "lines" \in DOMAIN f

\* (variant: the line is compared as written, without lower())
is_header_line_as_written(line) ==
    \E a \in ANCHORS : \E c \in DOMAIN line : Contains(line[c], a)

\* l = line.lower(); (anchor in l) or ...
is_header_line(line) ==
    \E a \in ANCHORS : \E c \in DOMAIN line : Contains(lower(line[c]), a)

\* for i, line in enumerate(lines): the index of the first hit, 0 after the loop
RECURSIVE scan_lines(_, _)
scan_lines(lines, k) ==
    IF k > Len(lines) THEN 0
    ELSE IF is_header_line(lines[k]) THEN k - 1
    ELSE scan_lines(lines, k + 1)

\* detect_header_start(path): open() failing is caught and gives 0
detect_header_start(f) ==
    IF ~f.ok THEN 0
    ELSE IF HasLines(f) THEN scan_lines(f.lines, 1)
    ELSE 0

\* pandas names the n-th repetition of a header name "name.n"
mangle_dupe_cols(names) ==
    [c \in DOMAIN names |->
        LET n == Cardinality({d \in 1..(c - 1) : names[d] = names[c]})
        IN  IF n = 0 THEN names[c] ELSE names[c] \o <<".", Digits[n + 1]>>]

\* read_csv(path, header=0, skiprows=start, on_bad_lines="skip", dtype=str):
\* the line after the skipped ones names the columns; a longer line is
\* skipped, a shorter one is filled with NaN, an empty field is NaN
read_csv(lines, start) ==
    LET header == lines[start + 1]
        body == SubSeq(lines, start + 2, Len(lines))
        kept == SelectSeq(body, LAMBDA l : Len(l) <= Len(header))
    IN  [columns |-> mangle_dupe_cols(header),
         data |-> [j \in DOMAIN kept |->
                    [c \in DOMAIN header |->
                        IF c <= Len(kept[j]) /\ kept[j][c] # <<>>
                        THEN Cell(kept[j][c]) ELSE NaN]]]

\* (variant: a later column with the same key replaces the earlier one)
lower_map_keep_last(cols) ==
    {<<strip(lower(cols[c])), c>> :
        c \in {c \in DOMAIN cols :
                \A d \in (c + 1)..Len(cols) :
                    strip(lower(cols[d])) # strip(lower(cols[c]))}}

\* _lower_map(cols): the pairs (str(c).lower().strip(), column), the first
\* column of each key
lower_map(cols) ==
    {<<strip(lower(cols[c])), c>> :
        c \in {c \in DOMAIN cols :
                \A d \in 1..(c - 1) :
                    strip(lower(cols[d])) # strip(lower(cols[c]))}}

\* _pick(cols_map, df, candidates): the column of the first candidate that is
\* a key of cols_map; 0 for the all-NaN series
RECURSIVE pick(_, _)
pick(cols_map, candidates) ==
    IF candidates = <<>> THEN 0
    ELSE IF \E e \in cols_map : e[1] = Head(candidates)
    THEN (CHOOSE e \in cols_map : e[1] = Head(candidates))[2]
    ELSE pick(cols_map, Tail(candidates))

\* standardize_rows: cols = self._lower_map(df.columns) and pick(k) for each
\* canonical field k, row by row
pick_columns(df) ==
    LET cols == lower_map(df.columns)
    IN  [j \in DOMAIN df.data |->
            [k \in Fields |->
                IF pick(cols, ALIASES[k]) = 0 THEN NaN
                ELSE df.data[j][pick(cols, ALIASES[k])]]]

\* ------------------------------------------------------------ ISDCalls sheet
\* str.replace(ch, "") for each of the characters of chars
without(s, chars) == SelectSeq(s, LAMBDA c : c \notin chars)
prefix(s, n) == SubSeq(s, 1, IF Len(s) < n THEN Len(s) ELSE n)

\* is_international(number) of create_isd_calls_sheet
is_international(number) ==
    LET num_str == strip(number)
        num_clean == without(num_str, {"+", "-", " "})
        n == Len(num_clean)
    IN  IF num_str = <<>> THEN FALSE
        ELSE \/ startswith(num_str, <<"0", "0">>)
             \/ startswith(num_str, <<"+">>)
             \/ n > 12
             \/ (n > 10 /\ ~startswith(num_clean, <<"9", "1">>))
             \/ (n >= 10 /\ prefix(num_clean, 1) = <<"1">> /\ n = 11)
             \/ (n >= 10 /\ prefix(num_clean, 2) \in
                    {<<"4", "4">>, <<"8", "6">>, <<"3", "3">>, <<"4", "9">>,
                     <<"3", "9">>, <<"8", "1">>})
             \/ (n >= 10 /\ prefix(num_clean, 3) \in
                    {<<"9", "7", "1">>, <<"9", "6", "6">>, <<"9", "7", "4">>})
             \/ (n >= 8 /\ ~startswith(num_clean, <<"9", "1">>)
                        /\ prefix(num_clean, 1) \notin {<<"6">>, <<"7">>, <<"8">>, <<"9">>})

\* is_international_lenient(number): anything but ten digits starting 6..9
is_international_lenient(number) ==
    LET num_str == strip(number)
        num_clean == without(num_str, {"+", "-", " ", "(", ")"})
    IN  IF num_str = <<>> THEN FALSE
        ELSE \/ Len(num_clean) # 10
             \/ ~isdigit(num_clean)
             \/ prefix(num_clean, 1) \notin {<<"6">>, <<"7">>, <<"8">>, <<"9">>}

\* df[mask]: the positions of the rows whose mask entry is true, ascending
RECURSIVE Positions(_, _)
Positions(mask, from) ==
    IF from > Len(mask) THEN <<>>
    ELSE (IF mask[from] THEN <<from>> ELSE <<>>) \o Positions(mask, from + 1)

\* create_isd_calls_sheet(df): the rows of df (by position) that the sheet
\* lists: the CALL records flagged by is_international, or, when that flags
\* none of them, the CALL records flagged by is_international_lenient
create_isd_calls_sheet(df) ==
    LET IsCall == [j \in DOMAIN df |-> ~IsSMS(df[j].CallTypeStd)]
        strict == Positions([j \in DOMAIN df |->
                                IsCall[j] /\ is_international(df[j].Counterparty)], 1)
        lenient == Positions([j \in DOMAIN df |->
                                IsCall[j] /\ is_international_lenient(df[j].Counterparty)], 1)
    IN  IF strict # <<>> THEN strict ELSE lenient

\* ------------------------------------------------------------ input corpus
NUM_X == <<"9", "8", "7", "6", "5", "4", "3", "2", "1", "0">>
NUM_X0 == <<"0">> \o NUM_X                 \* the same subscriber, trunk prefix
NUM_Y == <<"9", "1", "2", "3", "4", "5", "6", "7", "8", "9">>
NUM_Z == <<"9", "0", "0", "0", "0", "0", "0", "0", "0", "1">>
SENDER == <<"V", "K", "-", "N", "S", "E", "S", "M", "S">>
SENDER_PAD == <<" ">> \o SENDER          \* the cell after ", " in the CSV line
BLANK == <<" ">>
DATE_1 == <<"1", "2", "/", "0", "1", "/", "2", "0", "2", "4">>
TIME_EVE == <<"1", "8", ":", "0", "0", ":", "0", "0">>
TIME_MORN == <<"0", "5", ":", "5", "9">>
TYPE_SMS == <<"S", "M", "S">>
TYPE_VOICE == <<"V", "o", "i", "c", "e">>

Row(t, a, b, ct, d, tm) ==
    [target_number |-> t, a_party |-> a, b_party |-> b, call_type |-> ct,
     toc |-> NaN, call_date |-> d, call_time |-> tm, duration |-> NaN]

SeqsUpTo(S, n) == UNION {[1..k -> S] : k \in 0..n}
SeqsFrom1(S, n) == UNION {[1..k -> S] : k \in 1..n}

\* a file that load_csv_file cannot read (missing, empty, not a CSV)
BadFile == [ok |-> FALSE, rows |-> <<>>]
GoodFile(rows) == [ok |-> TRUE, rows |-> rows]

\* lines of the multi-file batches: a file of a batch is a run of at most
\* MaxRows consecutive lines of this table (none: a header-only file)
BatchTable ==
    << Row(Cell(NUM_X0), Cell(NUM_X), Cell(NUM_Y), Cell(TYPE_VOICE), Cell(DATE_1), Cell(TIME_EVE)),
       Row(Cell(NUM_Y), Cell(NUM_Y), Cell(NUM_X), Cell(TYPE_VOICE), Cell(DATE_1), Cell(TIME_MORN)),
       Row(NaN, Cell(NUM_X), Cell(NUM_Y), Cell(TYPE_VOICE), Cell(DATE_1), Cell(TIME_MORN)),
       Row(NaN, Cell(BLANK), Cell(BLANK), Cell(TYPE_VOICE), NaN, NaN),
       Row(NaN, Cell(SENDER), NaN, Cell(TYPE_SMS), Cell(DATE_1), Cell(TIME_EVE)) >>
BatchFiles ==
    {BadFile} \cup
    UNION {{GoodFile(SubSeq(BatchTable, a, b)) :
                b \in {k \in 0..Len(BatchTable) : k >= a - 1 /\ k < a + MaxRows}} :
           a \in DOMAIN BatchTable}

\* rows of the single-file runs that exercise the counterparty rules
PartyCells == {NaN, Cell(BLANK), Cell(NUM_X), Cell(NUM_Y), Cell(SENDER), Cell(SENDER_PAD)}
RuleRows ==
    { Row(t, a, b, ct, Cell(DATE_1), Cell(TIME_EVE)) :
        t \in {NaN, Cell(NUM_X), Cell(NUM_Z)}, a \in PartyCells, b \in PartyCells,
        ct \in {Cell(TYPE_SMS), Cell(TYPE_VOICE)} }
RuleFiles == {BadFile} \cup {GoodFile(r) : r \in SeqsUpTo(RuleRows, MaxRuleRows)}

\* rows of the single-file runs that exercise the monitored-number vote
VoteRows ==
    { Row(t, ab[1], ab[2], Cell(TYPE_VOICE), Cell(DATE_1), Cell(TIME_EVE)) :
        t \in {NaN, Cell(NUM_X), Cell(NUM_X0), Cell(NUM_Y)},
        ab \in {<<Cell(NUM_X), Cell(NUM_Y)>>, <<Cell(NUM_Y), Cell(NUM_X)>>,
                <<Cell(NUM_Y), NaN>>} }
VoteFiles == {BadFile} \cup {GoodFile(r) : r \in SeqsUpTo(VoteRows, MaxVoteRows)}

\* rows of the single-file runs that exercise the call-type classification
CT_INCOMING_SMS == <<"I", "n", "c", "o", "m", "i", "n", "g", " ", "S", "M", "S">>
CT_SMS_INCOMING == <<"S", "M", "S", " ", "I", "n", "c", "o", "m", "i", "n", "g">>
CT_OUTGOING_SMS == <<"O", "u", "t", "g", "o", "i", "n", "g", " ", "S", "M", "S">>
CT_SMS_MT == <<"S", "M", "S", "-", "M", "T">>
CT_SMS_MO == <<"S", "M", "S", "-", "M", "O">>
CT_INCOMING == <<"I", "n", "c", "o", "m", "i", "n", "g">>
CT_OUTGOING == <<"O", "u", "t", "g", "o", "i", "n", "g">>
CT_MTC == <<"M", "T", "C">>
CT_MOC == <<"M", "O", "C">>
CT_CALL_IN == <<"C", "a", "l", "l", " ", "I", "N">>
CT_CALL_OUT == <<"C", "a", "l", "l", " ", "O", "U", "T">>
TOC_TERMINATING == <<"T", "e", "r", "m", "i", "n", "a", "t", "i", "n", "g">>
TOC_ORIGINATING == <<"O", "r", "i", "g", "i", "n", "a", "t", "i", "n", "g">>
CallTypeCells ==
    {NaN, Cell(TYPE_SMS), Cell(TYPE_VOICE), Cell(CT_INCOMING_SMS), Cell(CT_SMS_INCOMING),
     Cell(CT_OUTGOING_SMS), Cell(CT_SMS_MT), Cell(CT_SMS_MO), Cell(CT_INCOMING),
     Cell(CT_OUTGOING), Cell(CT_MTC), Cell(CT_MOC), Cell(CT_CALL_IN), Cell(CT_CALL_OUT)}
TocCells == {NaN, Cell(TYPE_SMS), Cell(TOC_TERMINATING), Cell(TOC_ORIGINATING)}
TypeRows ==
    { [Row(Cell(NUM_X), Cell(NUM_X), Cell(NUM_Y), ct, Cell(DATE_1), Cell(TIME_EVE))
            EXCEPT !.toc = toc] :
        ct \in CallTypeCells, toc \in TocCells }
TypeFiles == {BadFile} \cup {GoodFile(r) : r \in SeqsUpTo(TypeRows, MaxTypeRows)}

\* rows of the single-file runs that exercise timestamps and the night window
TIME_1759 == <<"1", "7", ":", "5", "9">>
TIME_0600 == <<"0", "6", ":", "0", "0">>
TIME_6PM == <<"0", "6", ":", "0", "0", " ", "P", "M">>
TIME_2130 == <<"2", "1", "3", "0">>
TIME_BAD == <<"2", "5", ":", "0", "0">>
DATE_BAD == <<"3", "2", "/", "1", "3", "/", "2", "0", "2", "4">>
DUR_75 == <<"7", "5">>
DUR_BAD == <<"a", "b", "c">>
DUR_SUP == <<SUP_TWO>>
GoodTimeCells ==
    {Cell(TIME_1759), Cell(TIME_EVE), Cell(TIME_MORN), Cell(TIME_0600), Cell(TIME_6PM),
     Cell(TIME_2130)}
BadTimeCells == {NaN, Cell(TIME_BAD)}
BadDateCells == {NaN, Cell(DATE_BAD)}
BadDurationCells == {Cell(DUR_BAD), Cell(DUR_SUP)}
TimedRow(d, tm, dur) ==
    [Row(Cell(NUM_X), Cell(NUM_X), Cell(NUM_Y), Cell(TYPE_VOICE), d, tm) EXCEPT !.duration = dur]
TimeRows ==
    {TimedRow(Cell(DATE_1), tm, NaN) : tm \in GoodTimeCells \cup BadTimeCells}
        \cup {TimedRow(d, Cell(TIME_EVE), NaN) : d \in BadDateCells}
        \cup {TimedRow(Cell(DATE_1), Cell(TIME_EVE), dur) :
                    dur \in {Cell(DUR_75)} \cup BadDurationCells}
TimeFiles == {BadFile} \cup {GoodFile(r) : r \in SeqsUpTo(TimeRows, MaxTimeRows)}

\* rows of the single-file runs that exercise the duration conversion
DUR_0 == <<"0">>
DUR_HMS == <<"1", ":", "0", "2", ":", "0", "3">>
DUR_MS == <<"2", ":", "0", "5">>
DUR_QUOTED == <<"'", "4", "5", "'">>
DUR_PADDED == <<" ", "9", "0", " ">>
DUR_QUOTED_HMS == <<"'", " ", "1", ":", "0", "2", ":", "0", "3", " ", "'">>
DUR_NEG == <<"-", "5">>
DUR_PLUS == <<"+", "7">>
DUR_FRACTION == <<"1", "2", ".", "7">>
DUR_NEG_MS == <<"-", "1", ":", "3", "0">>
DUR_BAD_MS == <<"1", ":", "x", "x">>
DUR_FOUR == <<"1", ":", "2", ":", "3", ":", "4">>
DUR_QUOTES == <<"'", "'">>
DurationCells ==
    {NaN, Cell(BLANK), Cell(DUR_75), Cell(DUR_BAD), Cell(DUR_SUP),
     Cell(DUR_0), Cell(DUR_HMS), Cell(DUR_MS), Cell(DUR_QUOTED),
     Cell(DUR_PADDED), Cell(DUR_QUOTED_HMS), Cell(DUR_NEG), Cell(DUR_PLUS),
     Cell(DUR_FRACTION), Cell(DUR_NEG_MS), Cell(DUR_BAD_MS), Cell(DUR_FOUR),
     Cell(DUR_QUOTES)}
DurRows == {TimedRow(Cell(DATE_1), Cell(TIME_EVE), dur) : dur \in DurationCells}
DurFiles == {BadFile} \cup {GoodFile(r) : r \in SeqsUpTo(DurRows, MaxDurRows)}

\* files of the runs that exercise the ways a run can end: a file that cannot
\* be loaded, a header-only file, a file whose standardization raises
LiveFiles ==
    {BadFile, GoodFile(<<>>),
     GoodFile(<<TimedRow(Cell(DATE_1), Cell(TIME_EVE), Cell(DUR_SUP))>>)}

\* rows of the single-file runs that exercise the number normalization
NUM_91X == <<"9", "1", "9", "8", "7", "6", "5", "4", "3", "2", "1", "0">>
NUM_091X == <<"0", "9", "1", "9", "8", "7", "6", "5", "4", "3", "2", "1", "0">>
NUM_PLUS91X == <<"+", "9", "1", " ", "9", "8", "7", "6", "5", "-", "4", "3", "2", "1", "0">>
NUM_0091X == <<"0", "0", "9", "1", "9", "8", "7", "6", "5", "4", "3", "2", "1", "0">>
NUM_091_8 == <<"0", "9", "1", "1", "2", "3", "4", "5", "6", "7", "8">>
NUM_091_9 == <<"0", "9", "1", "1", "2", "3", "4", "5", "6", "7", "8", "9">>
NUM_91_8 == <<"9", "1", "1", "2", "3", "4", "5", "6", "7", "8">>
NUM_91_9 == <<"9", "1", "1", "2", "3", "4", "5", "6", "7", "8", "9">>
NUM_STD == <<"(", "0", "2", "2", ")", " ", "1", "2", "3", "4", "-", "5", "6", "7", "8">>
NUM_ZERO == <<"0">>
NumberCells ==
    {NaN, Cell(NUM_X), Cell(NUM_X0), Cell(SENDER),
     Cell(NUM_91X), Cell(NUM_091X), Cell(NUM_PLUS91X), Cell(NUM_0091X),
     Cell(NUM_091_8), Cell(NUM_091_9), Cell(NUM_91_8), Cell(NUM_91_9),
     Cell(NUM_STD), Cell(NUM_ZERO)}
NumRows ==
    { Row(NaN, a, Cell(NUM_Y), Cell(TYPE_VOICE), Cell(DATE_1), Cell(TIME_EVE)) :
        a \in NumberCells }
NumFiles == {BadFile} \cup {GoodFile(r) : r \in SeqsUpTo(NumRows, MaxNumRows)}

\* rows of the single-file runs that exercise the ISDCalls sheet
NUM_81 == <<"8", "1", "2", "3", "4", "5", "6", "7", "8", "9">>
NUM_UK == <<"4", "4", "7", "9", "1", "1", "1", "2", "3", "4", "5", "6">>
NUM_9191X == <<"9", "1", "9", "1", "9", "8", "7", "6", "5", "4", "3", "2", "1", "0">>
IsdRows ==
    { Row(Cell(NUM_X), Cell(NUM_X), b, ct, Cell(DATE_1), Cell(TIME_EVE)) :
        b \in {Cell(NUM_Y), Cell(NUM_81), Cell(NUM_UK), Cell(NUM_9191X)},
        ct \in {Cell(TYPE_VOICE), Cell(TYPE_SMS)} }
IsdFiles == {BadFile} \cup {GoodFile(r) : r \in SeqsUpTo(IsdRows, MaxIsdRows)}

\* files given line by line, for the runs that exercise header detection and
\* the alias table: at most MaxPreamble preamble lines, a header, a data line
P_TITLE == << <<"C", "D", "R", " ", "R", "e", "p", "o", "r", "t">> >>
P_TARGET == << <<"T", "a", "r", "g", "e", "t", " ", "N", "o", ":", " ", "9", "8", "7", "6", "5", "4", "3", "2", "1", "0">> >>   \* a preamble line that has an anchor
DATE_2 == <<"1", "3", "/", "0", "1", "/", "2", "0", "2", "4">>
H_PLAIN ==
    << <<"C", "a", "l", "l", "i", "n", "g", " ", "P", "a", "r", "t", "y", " ", "T", "e", "l", "e", "p", "h", "o", "n", "e", " ", "N", "u", "m", "b", "e", "r">>,
       <<"C", "a", "l", "l", "e", "d", " ", "P", "a", "r", "t", "y", " ", "T", "e", "l", "e", "p", "h", "o", "n", "e", " ", "N", "u", "m", "b", "e", "r">>,
       <<"C", "a", "l", "l", " ", "D", "a", "t", "e">>,
       <<"C", "a", "l", "l", " ", "T", "i", "m", "e">>,
       <<"C", "a", "l", "l", " ", "T", "y", "p", "e">> >>
H_SHORT ==
    << <<"A", " ", "P", "a", "r", "t", "y", " ", "N", "u", "m", "b", "e", "r">>,
       <<"B", " ", "P", "a", "r", "t", "y", " ", "N", "u", "m", "b", "e", "r">>,
       <<"D", "a", "t", "e">>,
       <<"T", "i", "m", "e">>,
       <<"D", "i", "r">> >>
H_ORDER ==
    << <<"C", "a", "l", "l", "i", "n", "g", " ", "P", "a", "r", "t", "y">>,
       <<"C", "A", "L", "L", "I", "N", "G", " ", "P", "A", "R", "T", "Y", " ", "T", "E", "L", "E", "P", "H", "O", "N", "E", " ", "N", "U", "M", "B", "E", "R">>,
       <<"C", "a", "l", "l", "e", "d", " ", "P", "a", "r", "t", "y">>,
       <<"D", "a", "t", "e">>,
       <<" ", "c", "a", "l", "l", " ", "d", "a", "t", "e", " ">>,
       <<"T", "i", "m", "e">> >>
H_DUPS ==
    << <<"T", "a", "r", "g", "e", "t", " ", "N", "o">>,
       <<"T", "A", "R", "G", "E", "T", " ", "N", "O", " ">>,
       <<"B", " ", "P", "a", "r", "t", "y", " ", "N", "o">>,
       <<"B", " ", "P", "a", "r", "t", "y", " ", "N", "o">>,
       <<"D", "a", "t", "e">>,
       <<"T", "i", "m", "e">> >>
L_PLAIN == <<NUM_X, NUM_Y, DATE_1, TIME_EVE, TYPE_VOICE>>
L_ORDER == <<NUM_Z, NUM_X, NUM_Y, DATE_2, DATE_1, TIME_EVE>>
L_DUPS == <<NUM_X, NUM_Z, NUM_Y, NUM_Z, DATE_1, TIME_EVE>>
Tables ==
    { <<H_PLAIN, L_PLAIN>>, <<H_SHORT, L_PLAIN>>, <<H_ORDER, L_ORDER>>,
      <<H_DUPS, L_DUPS>> }
LinesFile(lines) == [ok |-> TRUE, lines |-> lines]
HeaderFiles ==
    {[ok |-> FALSE, lines |-> <<>>]} \cup
    { LinesFile(p \o <<t[1]>> \o (IF d THEN <<t[2]>> ELSE <<>>)) :
        p \in SeqsUpTo({P_TITLE, P_TARGET}, MaxPreamble),
        t \in Tables,
        d \in BOOLEAN }

\* ------------------------------------------------- Summary and Night/Day
\* the printable ASCII characters (less double quote, backslash, backtick)
\* in code-point order, and Python's "<" on texts made of them
ASCII ==
    <<" ", "!", "#", "$", "%", "&", "'", "(", ")", "*", "+", ",",
       "-", ".", "/", "0", "1", "2", "3", "4", "5", "6", "7", "8",
       "9", ":", ";", "<", "=", ">", "?", "@", "A", "B", "C", "D",
       "E", "F", "G", "H", "I", "J", "K", "L", "M", "N", "O", "P",
       "Q", "R", "S", "T", "U", "V", "W", "X", "Y", "Z", "[", "]",
       "^", "_", "a", "b", "c", "d", "e", "f", "g", "h", "i",
       "j", "k", "l", "m", "n", "o", "p", "q", "r", "s", "t", "u",
       "v", "w", "x", "y", "z", "{", "|", "}", "~" >>
CodePoint(c) == CHOOSE k \in DOMAIN ASCII : ASCII[k] = c
RECURSIVE TextLess(_, _)
TextLess(s, t) ==
    IF t = <<>> THEN FALSE
    ELSE IF s = <<>> THEN TRUE
    ELSE IF s[1] = t[1] THEN TextLess(Tail(s), Tail(t))
    ELSE CodePoint(s[1]) < CodePoint(t[1])

\* the group keys of groupby(['CdrNo', 'Counterparty']) in sorted order
KeyLess(a, b) ==
    IF a[1] = b[1] THEN TextLess(a[2], b[2]) ELSE TextLess(a[1], b[1])
RECURSIVE SortedKeys(_)
SortedKeys(keys) ==
    IF keys = {} THEN <<>>
    ELSE LET k == CHOOSE k \in keys : \A o \in keys \ {k} : KeyLess(k, o)
         IN  <<k>> \o SortedKeys(keys \ {k})

\* (s == kind).sum() over the records js
CountKind(df, js, kind) == Cardinality({j \in js : df[j].CallTypeStd = kind})
RECURSIVE SumDuration(_, _)
SumDuration(df, js) ==
    IF js = {} THEN 0
    ELSE LET j == CHOOSE j \in js : TRUE
         IN  df[j].Duration + SumDuration(df, js \ {j})

\* (variant: every record is kept)
df_clean_unfiltered(df) == DOMAIN df

\* the rows create_summary_sheet keeps: Counterparty not blank after strip()
df_clean(df) == {j \in DOMAIN df : strip(df[j].Counterparty) # <<>>}

\* create_summary_sheet(df): one row for each (CdrNo, Counterparty) of the
\* records with a non-blank counterparty
create_summary_sheet(df) ==
    LET clean == df_clean(df)
        keys == SortedKeys({<<df[j].CdrNo, df[j].Counterparty>> : j \in clean})
        grp(k) == {j \in clean : <<df[j].CdrNo, df[j].Counterparty>> = k}
    IN  [g \in DOMAIN keys |->
            [CdrNo |-> keys[g][1],
             BParty |-> clean_text(keys[g][2]),
             TotalCalls |-> Cardinality(grp(keys[g])),
             OutCalls |-> CountKind(df, grp(keys[g]), <<"CALL", "OUT">>),
             InCalls |-> CountKind(df, grp(keys[g]), <<"CALL", "IN">>),
             OutSms |-> CountKind(df, grp(keys[g]), <<"SMS", "OUT">>),
             InSms |-> CountKind(df, grp(keys[g]), <<"SMS", "IN">>),
             OtherCalls |-> 0,
             TotalDuration |-> SumDuration(df, grp(keys[g]))]]

\* create_mapping_format(data_df): pd.DataFrame of columns taken from data_df,
\* which keep the row labels data_df has in df, and of constant columns
\* empty_series(""), labelled from the first row on; the frame has a row for
\* every label of either: labels[r] is the label of row r, and the row shows
\* record labels[r] iff that label is one of data_df
create_mapping_format(labels) ==
    LET index == Range(labels) \cup (1..Len(labels))
        mask == [l \in 1..(IF index = {} THEN 0
                           ELSE CHOOSE m \in index : \A n \in index : n <= m)
                    |-> l \in index]
    IN  [r \in DOMAIN Positions(mask, 1) |->
            [label |-> Positions(mask, 1)[r],
             record |-> Positions(mask, 1)[r] \in Range(labels)]]

\* create_night_day_analysis(df): night_df = df[df['IsNight'] == True],
\* day_df = df[df['IsNight'] == False]; the Night_Mapping and Day_Mapping frames
create_night_day_analysis(df) ==
    << create_mapping_format(Positions([j \in DOMAIN df |-> df[j].IsNight], 1)),
       create_mapping_format(Positions([j \in DOMAIN df |-> ~df[j].IsNight], 1)) >>

\* rows of the single-file runs that exercise the Summary and Night/Day sheets
SheetRows ==
    { [Row(Cell(NUM_X), Cell(NUM_X), b, ct, Cell(DATE_1), tm) EXCEPT !.duration = Cell(DUR_75)] :
        b \in {Cell(NUM_Y), Cell(NUM_Z)},
        ct \in {Cell(TYPE_VOICE), Cell(TYPE_SMS)},
        tm \in {Cell(TIME_EVE), Cell(TIME_1759), Cell(TIME_BAD)} }
      \cup {Row(NaN, Cell(BLANK), Cell(BLANK), Cell(TYPE_SMS), Cell(DATE_1), Cell(TIME_EVE))}
SheetFiles == {BadFile} \cup {GoodFile(r) : r \in SeqsUpTo(SheetRows, MaxSheetRows)}

\* ------------------------------------------------------------------- state
VARIABLES
    files,          \* the batch handed to processing_worker
    pc,             \* position of the worker
    i,              \* index of the for loop of process_files (files done)
    raw_df,         \* the frame load_csv_file returned for the current file
    start,          \* load_csv_file: what detect_header_start returned
    all_data,       \* process_files: the standardized frames so far
    combined_df,    \* process_files: the merged dataset it returns
    cancel_flag,    \* CDRProcessor.cancel_flag
    gen_cancel_flag,\* ExcelGenerator.cancel_flag
    raised,         \* why process_files / generate_excel_file raised, "" if not
    outcome,        \* processing_completed: "none", "success" or "failed"
    excel,          \* <<>>, or <<df, ISDCalls, Summary, Night_Mapping, Day_Mapping>>
                    \* once generate_excel_file wrote the workbook of df
    night_start,    \* ControlPanel.night_start: the "Night Hours" start spinbox
    night_end,      \* ControlPanel.night_end: the "Night Hours" end spinbox
    is_processing_flag, \* MainWindow.is_processing_flag
    processor,      \* MainWindow.processor is not None
    generator,      \* MainWindow.generator is not None
    progress_dialog,\* MainWindow.progress_dialog is not None (the dialog is shown)
    process_enabled,\* ControlPanel: the Process button is enabled
    after_queue,    \* root.after(0, complete) callbacks not yet run by the UI thread
    threads,        \* processing_worker threads that have not returned
    completed,      \* calls of processing_completed in the current run
    cancel_requested, \* the operator cancelled in the current run
    progress        \* the percentages passed to update_progress in the current run

\* the state of one run of the worker
run == <<i, raw_df, start, all_data, combined_df, raised, outcome, excel>>
\* the state of the window
gui == <<is_processing_flag, processor, generator, progress_dialog, process_enabled>>
\* the hand-over between the worker thread and the UI thread
sched == <<after_queue, threads, completed>>
night == <<night_start, night_end>>

vars == <<files, pc, i, raw_df, start, all_data, combined_df, cancel_flag,
          gen_cancel_flag, raised, outcome, excel, night_start, night_end,
          is_processing_flag, processor, generator, progress_dialog,
          process_enabled, after_queue, threads, completed,
          cancel_requested, progress>>

\* the night windows the operator can have set before pressing Process
DefaultNight == {<<NIGHT_START, NIGHT_END>>}
NightWindows == DefaultNight \cup {<<21, 7>>}

\* MainWindow.__init__: nothing is being processed; the operator has chosen
\* the files and the night hours
InitWith(F, n, W) ==
    /\ files \in SeqsFrom1(F, n)
    /\ \E w \in W : night_start = w[1] /\ night_end = w[2]
    /\ pc = "idle"
    /\ i = 0
    /\ raw_df = <<>>
    /\ start = 0
    /\ all_data = <<>>
    /\ combined_df = <<>>
    /\ cancel_flag = FALSE
    /\ gen_cancel_flag = FALSE
    /\ raised = ""
    /\ outcome = "none"
    /\ excel = <<>>
    /\ is_processing_flag = FALSE
    /\ processor = FALSE
    /\ generator = FALSE
    /\ progress_dialog = FALSE
    /\ process_enabled = TRUE
    /\ after_queue = 0
    /\ threads = 0
    /\ completed = 0
    /\ cancel_requested = FALSE
    /\ progress = <<>>

Init == InitWith(BatchFiles, MaxFiles, DefaultNight)
InitNorm == InitWith(RuleFiles, 1, DefaultNight)
InitMode == InitWith(VoteFiles, 1, DefaultNight)
InitType == InitWith(TypeFiles, 1, DefaultNight)
InitTime == InitWith(TimeFiles, 1, NightWindows)
InitDur == InitWith(DurFiles, 1, DefaultNight)
InitNum == InitWith(NumFiles, 1, DefaultNight)
InitIsd == InitWith(IsdFiles, 1, DefaultNight)
InitHeader == InitWith(HeaderFiles, 1, DefaultNight)
InitLive == InitWith(LiveFiles, MaxFiles, DefaultNight)
InitSheets == InitWith(SheetFiles, 1, DefaultNight)

\* pd.concat(all_data, ignore_index=True): the frames end to end, in order
RECURSIVE concat(_)
concat(frames) == IF frames = <<>> THEN <<>> ELSE Head(frames) \o concat(Tail(frames))

\* update_progress(percent, ...), once for each percentage of ps in order
update_progress(ps) == progress' = progress \o ps

\* processing_completed(success, message), the last statement the worker
\* executes: complete is queued with root.after and the thread returns
processing_completed(success) ==
    /\ outcome' = IF success THEN "success" ELSE "failed"
    /\ completed' = completed + 1
    /\ after_queue' = after_queue + 1
    /\ threads' = threads - 1
    /\ pc' = "done"

\* (variant: the exception is not caught, the thread dies)
Raise_uncaught(why) ==
    /\ raised' = why
    /\ outcome' = outcome
    /\ completed' = completed
    /\ after_queue' = after_queue
    /\ threads' = threads - 1
    /\ pc' = "done"

\* an exception leaves process_files / generate_excel_file and reaches the
\* except clause of processing_worker: processing_completed(False, msg)
Raise(why) ==
    /\ raised' = why
    /\ processing_completed(FALSE)

\* MainWindow.process_files: "if self.is_processing_flag: ... return"
process_files_allowed_always == TRUE

process_files_allowed == ~is_processing_flag

\* MainWindow.process_files and start_processing (UI thread): the flag is
\* set, the button disabled, the dialog shown and the worker thread started
start_processing ==
    /\ process_files_allowed
    /\ is_processing_flag' = TRUE
    /\ process_enabled' = FALSE
    /\ progress_dialog' = TRUE
    /\ threads' = threads + 1
    /\ pc' = "init"
    /\ i' = 0
    /\ raw_df' = <<>>
    /\ start' = 0
    /\ all_data' = <<>>
    /\ combined_df' = <<>>
    /\ raised' = ""
    /\ outcome' = "none"
    /\ excel' = <<>>
    /\ completed' = 0
    /\ cancel_requested' = FALSE
    /\ progress' = <<>>
    /\ UNCHANGED <<files, night, processor, generator, cancel_flag,
                   gen_cancel_flag, after_queue>>

\* processing_worker: self.processor = CDRProcessor(...)
WorkerInit ==
    /\ pc = "init"
    /\ processor' = TRUE
    /\ cancel_flag' = FALSE
    /\ pc' = "create_generator"
    /\ UNCHANGED <<files, run, night, gen_cancel_flag, is_processing_flag,
                   generator, progress_dialog, process_enabled, sched,
                   cancel_requested, progress>>

\* processing_worker: self.generator = ExcelGenerator(...), then
\* update_progress(0, "Starting data processing...")
CreateGenerator ==
    /\ pc = "create_generator"
    /\ generator' = TRUE
    /\ gen_cancel_flag' = FALSE
    /\ update_progress(<<0>>)
    /\ pc' = "process_files"
    /\ UNCHANGED <<files, run, night, cancel_flag, is_processing_flag,
                   processor, progress_dialog, process_enabled, sched,
                   cancel_requested>>

\* process_files: update_progress(5), all_data = [], the loop starts
ProcessStart ==
    /\ pc = "process_files"
    /\ all_data' = <<>>
    /\ i' = 0
    /\ update_progress(<<5>>)
    /\ pc' = "loop"
    /\ UNCHANGED <<files, raw_df, start, combined_df, cancel_flag, gen_cancel_flag,
                   raised, outcome, excel, night, gui, sched, cancel_requested>>

\* the cancel check at the top of the for loop
LoopTop_unchecked == FALSE

LoopTop_cancelled == cancel_flag

\* top of the for loop: the cancel check before each file and
\* update_progress(5 + (i * 85 // file_count)), or loop exit
LoopTop ==
    /\ pc = "loop"
    /\ IF i < Len(files)
       THEN IF LoopTop_cancelled
            THEN /\ Raise("cancelled")
                 /\ UNCHANGED <<files, i, raw_df, start, all_data, combined_df,
                                cancel_flag, gen_cancel_flag, excel, night,
                                gui, cancel_requested, progress>>
            ELSE /\ pc' = "load"
                 /\ update_progress(<<5 + ((i * 85) \div Len(files))>>)
                 /\ UNCHANGED <<files, run, cancel_flag, gen_cancel_flag,
                                night, gui, sched, cancel_requested>>
       ELSE /\ pc' = "combine"
            /\ UNCHANGED <<files, run, cancel_flag, gen_cancel_flag, night,
                           gui, sched, cancel_requested, progress>>

\* load_csv_file(file_path): update_progress(10), the frame and
\* update_progress(20), or the exception re-raised
load_csv_file ==
    /\ pc = "load"
    /\ start' = detect_header_start(files[i + 1])
    /\ IF files[i + 1].ok
       THEN /\ raw_df' = IF HasLines(files[i + 1])
                         THEN read_csv(files[i + 1].lines, start')
                         ELSE files[i + 1].rows
            /\ update_progress(<<10, 20>>)
            /\ pc' = "standardize"
            /\ UNCHANGED <<files, i, all_data, combined_df, cancel_flag,
                           gen_cancel_flag, raised, outcome, excel, night,
                           gui, sched, cancel_requested>>
       ELSE /\ Raise("load")
            /\ update_progress(<<10>>)
            /\ UNCHANGED <<files, i, raw_df, all_data, combined_df,
                           cancel_flag, gen_cancel_flag, excel, night, gui,
                           cancel_requested>>

\* the frame as standardize_rows reads it: by canonical field
picked(f, df) == IF HasLines(f) THEN pick_columns(df) ELSE df

\* standardize_rows(raw_df) and all_data.append(std_df)
Standardize ==
    /\ pc = "standardize"
    /\ IF cancel_flag
       THEN /\ Raise("cancelled")
            /\ update_progress(<<30>>)
            /\ UNCHANGED <<files, i, raw_df, start, all_data, combined_df,
                           cancel_flag, gen_cancel_flag, excel, night, gui,
                           cancel_requested>>
       ELSE IF standardize_raises(picked(files[i + 1], raw_df))
       THEN /\ Raise("standardize")
            /\ update_progress(<<30, 40>>)
            /\ UNCHANGED <<files, i, raw_df, start, all_data, combined_df,
                           cancel_flag, gen_cancel_flag, excel, night, gui,
                           cancel_requested>>
       ELSE /\ all_data' = Append(all_data, standardize_rows(picked(files[i + 1], raw_df)))
            /\ i' = i + 1
            /\ update_progress(<<30, 40, 50, 60, 70, 80, 90>>)
            /\ pc' = "loop"
            /\ UNCHANGED <<files, raw_df, start, combined_df, cancel_flag,
                           gen_cancel_flag, raised, outcome, excel, night,
                           gui, sched, cancel_requested>>

\* after the loop: update_progress(95), combined_df = pd.concat(all_data),
\* update_progress(100), returned to the worker
Combine ==
    /\ pc = "combine"
    /\ combined_df' = concat(all_data)
    /\ update_progress(<<95, 100>>)
    /\ pc' = "returned"
    /\ UNCHANGED <<files, i, raw_df, start, all_data, cancel_flag, gen_cancel_flag,
                   raised, outcome, excel, night, gui, sched, cancel_requested>>

\* processing_worker after process_files returned: the cancelled run is
\* completed, or update_progress(0, "Generating Excel file...")
AfterProcess ==
    /\ pc = "returned"
    /\ IF cancel_flag
       THEN /\ processing_completed(FALSE)
            /\ UNCHANGED progress
       ELSE /\ pc' = "generate"
            /\ update_progress(<<0>>)
            /\ UNCHANGED <<outcome, sched>>
    /\ UNCHANGED <<files, i, raw_df, start, all_data, combined_df, cancel_flag,
                   gen_cancel_flag, raised, excel, night, gui, cancel_requested>>

\* generate_excel_file(combined_df, output_path): update_progress(5), the
\* cancel check, then the workbook is written sheet by sheet, or the
\* exception of the writer (the output file cannot be created) is re-raised
generate_excel_file ==
    /\ pc = "generate"
    /\ IF gen_cancel_flag
       THEN /\ Raise("cancelled")
            /\ update_progress(<<5>>)
            /\ UNCHANGED <<files, i, raw_df, start, all_data, combined_df,
                           cancel_flag, gen_cancel_flag, excel, night, gui,
                           cancel_requested>>
       ELSE \/ /\ excel' = <<combined_df, create_isd_calls_sheet(combined_df),
                             create_summary_sheet(combined_df)>>
                                \o create_night_day_analysis(combined_df)
               /\ update_progress(<<5, 10, 15, 20, 25, 30, 35, 45, 60, 80, 90, 100>>)
               /\ pc' = "generated"
               /\ UNCHANGED <<files, i, raw_df, start, all_data, combined_df,
                              cancel_flag, gen_cancel_flag, raised, outcome,
                              night, gui, sched, cancel_requested>>
            \/ /\ Raise("generate")
               /\ update_progress(<<5>>)
               /\ UNCHANGED <<files, i, raw_df, start, all_data, combined_df,
                              cancel_flag, gen_cancel_flag, excel, night, gui,
                              cancel_requested>>

\* processing_worker after generate_excel_file returned
AfterGenerate ==
    /\ pc = "generated"
    /\ processing_completed(~gen_cancel_flag)
    /\ UNCHANGED <<files, i, raw_df, start, all_data, combined_df, cancel_flag,
                   gen_cancel_flag, raised, excel, night, gui,
                   cancel_requested, progress>>

\* ProgressDialog.on_cancel -> MainWindow.cancel_processing (UI thread, while
\* the dialog is shown): sets the flag of the processor and of the generator
\* if the worker has created them
cancel_processing ==
    /\ progress_dialog
    /\ cancel_flag' = (cancel_flag \/ processor)
    /\ gen_cancel_flag' = (gen_cancel_flag \/ generator)
    /\ cancel_requested' = TRUE
    /\ \/ ~cancel_requested
       \/ cancel_flag' # cancel_flag
       \/ gen_cancel_flag' # gen_cancel_flag
    /\ UNCHANGED <<files, pc, run, night, gui, sched, progress>>

\* complete(), the callback processing_completed queued (UI thread)
complete ==
    /\ after_queue > 0
    /\ after_queue' = after_queue - 1
    /\ is_processing_flag' = FALSE
    /\ process_enabled' = TRUE
    /\ progress_dialog' = FALSE
    /\ processor' = FALSE
    /\ generator' = FALSE
    /\ cancel_flag' = FALSE
    /\ gen_cancel_flag' = FALSE
    /\ pc' = IF pc = "done" THEN "idle" ELSE pc
    /\ UNCHANGED <<files, run, night, threads, completed, cancel_requested,
                   progress>>

\* the steps of the worker thread
Worker ==
    \/ WorkerInit
    \/ CreateGenerator
    \/ ProcessStart
    \/ LoopTop
    \/ load_csv_file
    \/ Standardize
    \/ Combine
    \/ AfterProcess
    \/ generate_excel_file
    \/ AfterGenerate

Next ==
    \/ start_processing
    \/ WorkerInit
    \/ CreateGenerator
    \/ ProcessStart
    \/ LoopTop
    \/ load_csv_file
    \/ Standardize
    \/ Combine
    \/ AfterProcess
    \/ generate_excel_file
    \/ AfterGenerate
    \/ cancel_processing
    \/ complete

Spec == Init /\ [][Next]_vars
SpecNorm == InitNorm /\ [][Next]_vars
SpecMode == InitMode /\ [][Next]_vars
SpecType == InitType /\ [][Next]_vars
SpecTime == InitTime /\ [][Next]_vars
SpecDur == InitDur /\ [][Next]_vars
SpecNum == InitNum /\ [][Next]_vars
SpecIsd == InitIsd /\ [][Next]_vars
SpecHeader == InitHeader /\ [][Next]_vars
SpecSheets == InitSheets /\ [][Next]_vars

\* The worker thread keeps running until processing_worker returns, and the
\* Tk main loop runs every callback queued with root.after.
Fairness == WF_vars(Worker) /\ WF_vars(complete)
SpecLive == InitLive /\ [][Next]_vars /\ Fairness

\* ================================================================== claims
\* every standardized record the processor holds: per-file frames, the merged
\* dataset, and the dataset given to the workbook writer
Written == IF excel = <<>> THEN <<>> ELSE excel[1]
Records ==
    UNION {Range(all_data[k]) : k \in DOMAIN all_data}
        \cup Range(combined_df) \cup Range(Written)

Finished == pc = "done"
Cancelled == cancel_flag \/ gen_cancel_flag

\* C1: every record of the normalized stream has a counterparty that is
\* non-empty after trimming (rows resolving to "" are dropped).
C1_NoEmptyCounterparty ==
    \A r \in Records : strip(r.Counterparty) # <<>>

\* C2: in a batch with a file that cannot be loaded and a file that has
\* records, process_files does not raise and returns the records of the
\* loadable files.
RECURSIVE LoadableFrames(_)
LoadableFrames(fs) ==
    IF fs = <<>> THEN <<>>
    ELSE (IF Head(fs).ok THEN <<standardize_rows(Head(fs).rows)>> ELSE <<>>)
            \o LoadableFrames(Tail(fs))
HasBadFile == \E k \in DOMAIN files : ~files[k].ok
HasUsableFile == \E k \in DOMAIN files : files[k].ok /\ files[k].rows # <<>>
C2_BadFileSkipped ==
    (Finished /\ ~Cancelled /\ HasBadFile /\ HasUsableFile)
        => /\ raised = ""
           /\ combined_df = concat(LoadableFrames(files))

\* C3: the merged dataset handed to the report builders is the concatenation
\* sorted ascending by timestamp, nulls at one end, equal timestamps in
\* concatenation order (stable).
Earlier(a, b, nullsLast) ==
    IF a.start_dt = NaT /\ b.start_dt = NaT THEN FALSE
    ELSE IF a.start_dt = NaT THEN ~nullsLast
    ELSE IF b.start_dt = NaT THEN nullsLast
    ELSE TupleLess(a.start_dt, b.start_dt)
RECURSIVE InsertStable(_, _, _)
InsertStable(sorted, r, nullsLast) ==
    IF sorted = <<>> THEN <<r>>
    ELSE IF Earlier(r, Head(sorted), nullsLast) THEN <<r>> \o sorted
    ELSE <<Head(sorted)>> \o InsertStable(Tail(sorted), r, nullsLast)
RECURSIVE StableSort(_, _)
StableSort(df, nullsLast) ==
    IF df = <<>> THEN <<>>
    ELSE InsertStable(StableSort(SubSeq(df, 1, Len(df) - 1), nullsLast),
                      df[Len(df)], nullsLast)
C3_MergedSortedStable ==
    excel # <<>> =>
        \/ Written = StableSort(concat(all_data), TRUE)
        \/ Written = StableSort(concat(all_data), FALSE)

\* C4: when no file yields a normalized record the run ends in failure and
\* no workbook is written: the writer never gets an empty dataset and an
\* empty dataset is never reported as success.
C4_NoUsableDataAborts ==
    /\ excel # <<>> => Written # <<>>
    /\ outcome = "success" => combined_df # <<>>

\* C5: counterparty differs from monitored_number unless it came from the
\* raw-text fallback (both normalized parties empty).
C5_CounterpartyNotMonitored ==
    \A r \in Records :
        r.Counterparty = r.CdrNo => (r.A_norm = <<>> /\ r.B_norm = <<>>)

\* the sender-code rules a and b decide the record
SenderRule(r) ==
    IsSMS(r.CallTypeStd) /\ (contains_sender_code(r.Braw) \/ contains_sender_code(r.Araw))

\* C6 (as claimed): for an SMS record the counterparty is the B-party raw
\* text when that is a sender code, else the A-party raw text when that is a
\* sender code, before any number rule; a CALL record with a number never
\* gets a sender code.
CallKeepsNumber(r) ==
    (~IsSMS(r.CallTypeStd) /\ (r.A_norm # <<>> \/ r.B_norm # <<>>))
        => (r.Counterparty # <<>> /\ r.Counterparty \in {r.A_norm, r.B_norm})
C6_SenderCodeIsRawText ==
    \A r \in Records :
        /\ (IsSMS(r.CallTypeStd) /\ contains_sender_code(r.Braw))
              => r.Counterparty = r.Braw
        /\ (IsSMS(r.CallTypeStd) /\ ~contains_sender_code(r.Braw)
                /\ contains_sender_code(r.Araw))
              => r.Counterparty = r.Araw
        /\ CallKeepsNumber(r)

\* C6 (amended): for an SMS record the counterparty is the B-party raw text
\* with whitespace runs collapsed and the ends trimmed when that text is a
\* sender code, else the A-party raw text cleaned the same way when that is a
\* sender code, before any number rule; a CALL record with a number never
\* gets a sender code.
C6_SenderCodeIsCleanedText ==
    \A r \in Records :
        /\ (IsSMS(r.CallTypeStd) /\ contains_sender_code(r.Braw))
              => r.Counterparty = clean_text(r.Braw)
        /\ (IsSMS(r.CallTypeStd) /\ ~contains_sender_code(r.Braw)
                /\ contains_sender_code(r.Araw))
              => r.Counterparty = clean_text(r.Araw)
        /\ CallKeepsNumber(r)

\* an SMS whose B-party is a padded sender code and whose A-party is the
\* monitored number: the cleaned sender code wins over the number rules
C6_Witness ==
    \E r \in Records :
        /\ IsSMS(r.CallTypeStd)
        /\ r.Braw = SENDER_PAD
        /\ r.A_norm = NUM_X /\ r.CdrNo = NUM_X
        /\ r.Counterparty = SENDER

\* the number rules c, d, e in their order, for a record no sender rule decides
NumberRules(r) ==
    /\ (r.A_norm = r.CdrNo /\ r.B_norm # <<>>) => r.Counterparty = r.B_norm
    /\ (~(r.A_norm = r.CdrNo /\ r.B_norm # <<>>)
            /\ r.B_norm = r.CdrNo /\ r.A_norm # <<>>) => r.Counterparty = r.A_norm
    /\ (r.A_norm # r.CdrNo /\ r.B_norm # r.CdrNo /\ r.B_norm # <<>>)
            => r.Counterparty = r.B_norm
    /\ (r.B_norm = <<>> /\ r.A_norm # <<>>) => r.Counterparty = r.A_norm

FieldCount(frame, f, v) == Cardinality({j \in DOMAIN frame : frame[j][f] = v})
PartyCount(frame, v) == FieldCount(frame, "A_norm", v) + FieldCount(frame, "B_norm", v)
HasTarget(frame) == \E j \in DOMAIN frame : frame[j].Target_norm # <<>>
HasParty(frame) == \E j \in DOMAIN frame : frame[j].A_norm # <<>> \/ frame[j].B_norm # <<>>
\* the values that vote, with their number of votes
Voters(frame) ==
    IF HasTarget(frame)
    THEN {frame[j].Target_norm : j \in DOMAIN frame} \ {<<>>}
    ELSE ({frame[j].A_norm : j \in DOMAIN frame}
            \cup {frame[j].B_norm : j \in DOMAIN frame}) \ {<<>>}
Votes(frame, v) ==
    IF HasTarget(frame) THEN FieldCount(frame, "Target_norm", v) ELSE PartyCount(frame, v)

\* C8: all records of a file carry one monitored number; it is a most
\* frequent non-empty normalized target number when a row has one (rows
\* without target do not vote), else a most frequent non-empty normalized
\* A-party or B-party number.
C8_MonitoredNumberIsMode ==
    \A k \in DOMAIN all_data :
        LET frame == all_data[k]
        IN  /\ \A j \in DOMAIN frame : frame[j].CdrNo = frame[1].CdrNo
            /\ \A j \in DOMAIN frame :
                  /\ frame[j].Target_norm =
                        normalize_msisdn(astype_str(files[k].rows[j].target_number))
                  /\ Voters(frame) # {} =>
                        /\ frame[j].CdrNo \in Voters(frame)
                        /\ \A v \in Voters(frame) :
                              Votes(frame, frame[j].CdrNo) >= Votes(frame, v)

\* the target is X in two rows of three and absent in the third, while the
\* parties of all three rows are Y: the monitored number is X
C8_Witness ==
    \E k \in DOMAIN all_data :
        LET frame == all_data[k]
        IN  /\ Len(frame) = 3
            /\ FieldCount(frame, "Target_norm", NUM_X) = 2
            /\ FieldCount(frame, "Target_norm", <<>>) = 1
            /\ PartyCount(frame, NUM_Y) = 3
            /\ PartyCount(frame, NUM_X) = 0
            /\ frame[1].CdrNo = NUM_X

C10_MonitoredNumberPresent ==
    (excel # <<>> /\ \E j \in DOMAIN Written : strip(Written[j].Counterparty) # <<>>)
        => \E j \in DOMAIN Written : Written[j].CdrNo # <<>>

\* the text the direction keywords are searched in
TypeText(r) == lower(r.CallTypeRaw \o <<" ">> \o r.TOC)
IN_KEYWORDS == {<<"i", "n", "c", "o", "m", "i", "n", "g">>, <<"m", "t">>, <<"t", "e", "r", "m", "i", "n", "a", "t">>, <<" ", "i", "n">>}
OUT_KEYWORDS == {<<"o", "u", "t", "g", "o", "i", "n", "g">>, <<"m", "o">>, <<"o", "r", "i", "g", "i", "n", "a", "t">>, <<" ", "o", "u", "t">>}
HasIn(r) == Kw(TypeText(r), IN_KEYWORDS)
HasOut(r) == Kw(TypeText(r), OUT_KEYWORDS)

\* C11: in both classes a text with an IN keyword ("incoming", "mt",
\* "terminat", " in") is IN wherever the keyword stands, a text with an OUT
\* keyword ("outgoing", "mo", "originat", " out") and no IN keyword is OUT,
\* and only without any keyword the default applies (CALL: OUT; SMS: IN if
\* the text ends with "in", else OUT).
C11_DirectionByKeyword ==
    \A r \in Records :
        LET d == r.CallTypeStd[2]
        IN  /\ HasIn(r) => d = "IN"
            /\ (HasOut(r) /\ ~HasIn(r)) => d = "OUT"
            /\ (~HasIn(r) /\ ~HasOut(r)) =>
                  d = (IF IsSMS(r.CallTypeStd) /\ endswith(strip(TypeText(r)), <<"i", "n">>)
                       THEN "IN" ELSE "OUT")

\* the text of a cell as the file has it: empty for an absent cell
CellText(c) == IF isna(c) THEN <<>> ELSE c[1]
EVENT_KINDS == {<<"CALL", "IN">>, <<"CALL", "OUT">>, <<"SMS", "IN">>, <<"SMS", "OUT">>}

\* C12: every row of a file gets exactly one record with one event kind out
\* of CALL_IN, CALL_OUT, SMS_IN, SMS_OUT; the class is SMS iff the lower-cased
\* call-type and TOC texts, joined by one space, contain "sms", else CALL; a
\* row with neither call type nor TOC is CALL_OUT.
C12_EventKindTotal ==
    \A k \in DOMAIN all_data :
        /\ Len(all_data[k]) = Len(files[k].rows)
        /\ \A j \in DOMAIN all_data[k] :
              LET r == all_data[k][j]
                  row == files[k].rows[j]
                  text == lower(CellText(row.call_type) \o <<" ">> \o CellText(row.toc))
              IN  /\ r.CallTypeStd \in EVENT_KINDS
                  /\ IsSMS(r.CallTypeStd) <=> Contains(text, <<"s", "m", "s">>)
                  /\ (isna(row.call_type) /\ isna(row.toc)) => r.CallTypeStd = <<"CALL", "OUT">>

\* a row without call type and without TOC was standardized to CALL_OUT
C12_Witness ==
    \E k \in DOMAIN all_data : \E j \in DOMAIN all_data[k] :
        /\ isna(files[k].rows[j].call_type) /\ isna(files[k].rows[j].toc)
        /\ all_data[k][j].CallTypeStd = <<"CALL", "OUT">>

\* the hour of a non-null timestamp (year, month, day, hour, minute, second)
HourOf(r) == r.start_dt[4]
\* the record of a row whose time cell is the given text, on a parseable date
At(r, tm) == r.CallTimeRaw = tm /\ r.CallDateRaw = DATE_1

\* C13: is_night holds iff the hour h of the timestamp has h >= 18 or h < 6
\* (17:59 is day, 18:00 night, 05:59 night, 06:00 day), and it is false for
\* a null timestamp.
C13_NightIffHourInWindow ==
    \A r \in Records :
        /\ r.start_dt = NaT => ~r.IsNight
        /\ r.start_dt # NaT =>
              /\ HourOf(r) \in 0..23
              /\ r.IsNight <=> (HourOf(r) >= 18 \/ HourOf(r) < 6)
        /\ At(r, TIME_1759) => (r.start_dt # NaT /\ HourOf(r) = 17 /\ ~r.IsNight)
        /\ At(r, TIME_EVE) => (r.start_dt # NaT /\ HourOf(r) = 18 /\ r.IsNight)
        /\ At(r, TIME_MORN) => (r.start_dt # NaT /\ HourOf(r) = 5 /\ r.IsNight)
        /\ At(r, TIME_0600) => (r.start_dt # NaT /\ HourOf(r) = 6 /\ ~r.IsNight)

\* one file holds a 17:59 record that is day and an 18:00 record that is night
C13_Witness ==
    \E k \in DOMAIN all_data :
        /\ \E j \in DOMAIN all_data[k] :
              At(all_data[k][j], TIME_1759) /\ ~all_data[k][j].IsNight
        /\ \E j \in DOMAIN all_data[k] :
              At(all_data[k][j], TIME_EVE) /\ all_data[k][j].IsNight

\* C14: is_night follows the configured night window: with night hours set
\* to start s and end e, a record with hour h is night iff h >= s or h < e.
C14_NightWindowConfigured ==
    \A r \in Records :
        r.start_dt # NaT =>
            (r.IsNight <=> (HourOf(r) >= night_start \/ HourOf(r) < night_end))

\* C15: the duration of every normalized record is a non-negative integer,
\* whatever the duration text is (digits, colon-separated, quoted, signed or
\* fractional, garbage, empty, absent).
C15_DurationNonNegative ==
    \A r \in Records : r.Duration \in Nat

\* the duration text once surrounding whitespace and single quotes are off
DurationText(r) == stripq(strip(stripq(strip(r.DurationRaw))))
\* the colon-separated fields of a duration text, each one or more digits
DurationFields(r) == split(DurationText(r), ":")
FieldsAreDigits(r) == \A k \in DOMAIN DurationFields(r) : AllDigits(strip(DurationFields(r)[k]))
FieldValue(r, k) == to_int(strip(DurationFields(r)[k]))
\* signed or fractional decimal text: neither one of the listed forms nor malformed
IsDecimalText(t) ==
    LET parts == split(Unsigned(t), <<".">>[1])
    IN  /\ Len(parts) <= 2
        /\ \E k \in DOMAIN parts : parts[k] # <<>>
        /\ \A k \in DOMAIN parts : parts[k] = <<>> \/ AllDigits(parts[k])

\* C16: to_seconds never raises; a plain digit string gives its value, H:M:S
\* gives 3600*H + 60*M + S, M:S gives 60*M + S, the same once surrounding
\* whitespace and single quotes are stripped, and empty, absent or malformed
\* text gives 0.
C16_ToSecondsTotal ==
    /\ raised # "standardize"
    /\ \A r \in Records :
          LET t == DurationText(r)
              n == Len(DurationFields(r))
          IN  IF AllDigits(t) THEN r.Duration = to_int(t)
              ELSE IF n = 3 /\ FieldsAreDigits(r)
              THEN r.Duration = 3600 * FieldValue(r, 1) + 60 * FieldValue(r, 2) + FieldValue(r, 3)
              ELSE IF n = 2 /\ FieldsAreDigits(r)
              THEN r.Duration = 60 * FieldValue(r, 1) + FieldValue(r, 2)
              ELSE IF IsDecimalText(t) \/ (n \in {2, 3} /\ \A k \in 1..n :
                                                IsDecimalText(strip(DurationFields(r)[k])))
              THEN TRUE
              ELSE r.Duration = 0

\* the digits of the A-party text, and how many of them the normalized
\* number lost at the front
RawDigits(r) == SelectSeq(r.Araw, IsDigit)
CutOff(r) == Len(RawDigits(r)) - Len(r.A_norm)
LeadingZero(r) == startswith(RawDigits(r), <<"0">>)
AfterZero(r) == IF LeadingZero(r) THEN Tail(RawDigits(r)) ELSE RawDigits(r)
\* the three steps of the normalization, as the claim words them
NormalizeSteps(r) ==
    /\ r.A_norm = SubSeq(RawDigits(r), CutOff(r) + 1, Len(RawDigits(r)))
    /\ CutOff(r) = (IF LeadingZero(r) THEN 1 ELSE 0)
                      + (IF Len(AfterZero(r)) > 10 /\ startswith(AfterZero(r), <<"9", "1">>)
                         THEN 2 ELSE 0)
\* written with a leading 0, then the country code 91
ZeroThen91(r) == startswith(RawDigits(r), <<"0", "9", "1">>)
Subscriber(r) == SubSeq(RawDigits(r), 4, Len(RawDigits(r)))

\* C17 (as claimed): the normalized number is the digits of the text, less
\* exactly one leading "0", less a leading "91" iff what is left is longer
\* than 10 digits and begins with "91"; and every number written with a
\* leading 0, then 91, and of length greater than 10 loses both and is
\* exactly the subscriber digits.
C17_BothPrefixesStripped ==
    \A r \in Records :
        /\ NormalizeSteps(r)
        /\ (ZeroThen91(r) /\ Len(RawDigits(r)) > 10) => r.A_norm = Subscriber(r)

\* C17 (amended): the same three steps; and every number written with a
\* leading 0, then 91, that still has more than 10 digits once the leading 0
\* is removed (at least 9 digits after the 91) loses both and is exactly the
\* subscriber digits.
C17_BothPrefixesStrippedWhenLong ==
    \A r \in Records :
        /\ NormalizeSteps(r)
        /\ (ZeroThen91(r) /\ Len(AfterZero(r)) > 10) => r.A_norm = Subscriber(r)

\* "0919876543210" was normalized to "9876543210"
C17_Witness ==
    \E r \in Records : r.Araw = NUM_091X /\ r.A_norm = NUM_X

\* C18: an absent or empty A-party or B-party cell gives the empty text in
\* the record and behaves as empty text: it is not a sender code, it is not
\* the counterparty (a row with neither party has no counterparty, a row with
\* one party takes it from that party), and the row is still standardized.
C18_AbsentFieldIsEmpty ==
    \A k \in DOMAIN all_data :
        /\ Len(all_data[k]) = Len(files[k].rows)
        /\ \A j \in DOMAIN all_data[k] :
              LET r == all_data[k][j]
                  row == files[k].rows[j]
              IN  /\ isna(row.a_party) =>
                        /\ r.Araw = <<>> /\ r.A_norm = <<>>
                        /\ ~contains_sender_code(r.Araw)
                        /\ r.Counterparty \in {r.B_norm, clean_text(CellText(row.b_party))}
                  /\ isna(row.b_party) =>
                        /\ r.Braw = <<>> /\ r.B_norm = <<>>
                        /\ ~contains_sender_code(r.Braw)
                        /\ r.Counterparty \in {r.A_norm, clean_text(CellText(row.a_party))}
                  /\ (isna(row.a_party) /\ isna(row.b_party)) => r.Counterparty = <<>>

\* what C19 says of one standardized file: one record per row; the timestamp
\* is null iff the date or the time did not parse; a null timestamp is not
\* night; an unparseable or absent duration is 0; and each record is the one
\* its row gets in a file of its own
RowsDegradeLocally(k) ==
    /\ Len(all_data[k]) = Len(files[k].rows)
    /\ \A j \in DOMAIN all_data[k] :
          LET r == all_data[k][j]
              row == files[k].rows[j]
          IN  /\ r.start_dt = NaT <=>
                    (row.call_date \in BadDateCells \/ row.call_time \in BadTimeCells)
              /\ r.start_dt = NaT => ~r.IsNight
              /\ row.duration \in BadDurationCells \cup {NaN} => r.Duration = 0
              /\ r = standardize_rows(<<row>>)[1]

\* C19: a record's timestamp is null iff its date or its time fails to
\* parse; a row with an unparseable date, time or duration keeps that field
\* at its default (null, not night, 0), never aborts the normalization of
\* its file and never changes the results of the other rows.
C19_ParseFailureIsLocal ==
    /\ raised # "standardize"
    /\ \A k \in DOMAIN all_data : RowsDegradeLocally(k)

\* the rows of the written dataset that the ISDCalls sheet lists
ISDCalls == IF excel = <<>> THEN {} ELSE Range(excel[2])
DigitCount(t) == Len(SelectSeq(t, IsDigit))
\* a ten-digit domestic mobile number (first digit 6 to 9)
Domestic10(t) == AllDigits(t) /\ Len(t) = 10 /\ t[1] \in {"6", "7", "8", "9"}

\* C20: the ISDCalls report lists every call record whose counterparty has
\* 12 or more digits and no call record whose counterparty is a 10-digit
\* domestic number, whatever else is in the dataset.
C20_IsdByDigitCount ==
    \A j \in DOMAIN Written :
        ~IsSMS(Written[j].CallTypeStd) =>
            /\ DigitCount(Written[j].Counterparty) >= 12 => j \in ISDCalls
            /\ Domestic10(Written[j].Counterparty) => j \notin ISDCalls

\* ---------------------------------------------------------------- C21
\* a step of the worker thread (the UI thread never moves pc forward)
WorkerStep == pc' # pc /\ pc # "done" /\ pc # "idle"

C22_ProgressMonotone ==
    \A k \in 1..(Len(progress) - 1) : progress[k] <= progress[k + 1]

\* ---------------------------------------------------------------- C23
\* load_csv_file has run detect_header_start on the current file
Detected == pc = "standardize" \/ (pc = "done" /\ raised = "load")
\* the lines (numbered from 1) that contain an anchor phrase, in any case
AnchorLines(f) ==
    {k \in DOMAIN f.lines :
        \E a \in ANCHORS : \E c \in DOMAIN f.lines[k] :
            Contains(lower(f.lines[k][c]), a)}
CALLING_PARTY_TELEPHONE_NUMBER == H_PLAIN[1]

\* C23: detect_header_start returns the zero-based index of the first line
\* that contains an anchor phrase (case-insensitively), 0 when no line does
\* or the file cannot be read: 0 for a header on the first line, 3 for three
\* preamble lines before a header with "Calling Party Telephone Number".
C23_HeaderStart ==
    Detected =>
        LET f == files[i + 1]
            hits == IF f.ok THEN AnchorLines(f) ELSE {}
        IN  /\ start \in Nat
            /\ hits = {} => start = 0
            /\ hits # {} => /\ start + 1 \in hits
                            /\ \A k \in hits : start + 1 <= k
            /\ 1 \in hits => start = 0
            /\ (/\ f.ok
                /\ Len(f.lines) >= 4
                /\ \A k \in 1..3 : k \notin hits
                /\ f.lines[4][1] = CALLING_PARTY_TELEPHONE_NUMBER) => start = 3
            /\ ~f.ok => start = 0

\* a file with three preamble lines and the header on the fourth was loaded
C23_Witness ==
    /\ pc = "standardize"
    /\ Len(files[1].lines) = 5
    /\ \A k \in 1..3 : files[1].lines[k] = P_TITLE
    /\ files[1].lines[4] = H_PLAIN
    /\ start = 3
    /\ raw_df.columns = H_PLAIN
    /\ Len(raw_df.data) = 1

\* ---------------------------------------------------------------- C24
Key(c) == strip(lower(c))
\* the positions, in the alias list of field k, of the aliases that name a column
AliasesPresent(cols, k) ==
    {a \in DOMAIN ALIASES[k] : \E c \in DOMAIN cols : Key(cols[c]) = ALIASES[k][a]}
Least(S) == CHOOSE m \in S : \A n \in S : m <= n
\* the column the claim describes for field k, 0 for absent
Resolved(cols, k) ==
    IF AliasesPresent(cols, k) = {} THEN 0
    ELSE Least({c \in DOMAIN cols :
                    Key(cols[c]) = ALIASES[k][Least(AliasesPresent(cols, k))]})
\* the text standardize_rows holds for row j of field k
FieldText(j, k) ==
    IF Resolved(raw_df.columns, k) = 0 THEN astype_str(NaN)
    ELSE astype_str(raw_df.data[j][Resolved(raw_df.columns, k)])

\* C24: each canonical field resolves to the first column whose
\* lowercase-trimmed name is the earliest alias of the field present in the
\* header (alias order decides, not column order), to absent if none is; of
\* columns with the same lowercase-trimmed name only the first is used.
C24_AliasResolution ==
    /\ pc = "standardize" =>
         \A k \in Fields :
            pick(lower_map(raw_df.columns), ALIASES[k]) = Resolved(raw_df.columns, k)
    /\ all_data # <<>> =>
         /\ Len(all_data[1]) = Len(raw_df.data)
         /\ \A j \in DOMAIN all_data[1] :
              /\ all_data[1][j].Araw = FieldText(j, "a_party")
              /\ all_data[1][j].Braw = FieldText(j, "b_party")
              /\ all_data[1][j].CallDateRaw = FieldText(j, "call_date")
              /\ all_data[1][j].CallTimeRaw = FieldText(j, "call_time")
              /\ all_data[1][j].DurationRaw = FieldText(j, "duration")
              /\ all_data[1][j].CallTypeRaw = FieldText(j, "call_type")
              /\ all_data[1][j].TOC = FieldText(j, "toc")
              /\ all_data[1][j].Target_norm = normalize_msisdn(FieldText(j, "target_number"))

\* a header where the later alias comes first ("Calling Party" before
\* "CALLING PARTY TELEPHONE NUMBER", "Date" before " call date "): the
\* record has the values of the columns of the earlier aliases
C24_Witness ==
    /\ all_data # <<>>
    /\ raw_df.columns = H_ORDER
    /\ Len(all_data[1]) = 1
    /\ all_data[1][1].Araw = NUM_X
    /\ all_data[1][1].CallDateRaw = DATE_1
    /\ all_data[1][1].DurationRaw = astype_str(NaN)

\* ---------------------------------------------------------------- C25
\* C25: a cancellation requested while the progress dialog is shown is never
\* lost: the run does not end with processing_completed(True, ...).
C25_CancelNeverLost ==
    cancel_requested => outcome # "success"

\* ---------------------------------------------------------------- C26
\* C26: at most one worker thread is active at any time; the flag is true
\* from start_processing until the completion handler of the run has run.
C26_OneWorker ==
    /\ threads <= 1
    /\ threads + after_queue <= 1
    /\ (threads = 1 \/ after_queue = 1) <=> is_processing_flag
    /\ is_processing_flag <=> pc # "idle"
    /\ is_processing_flag => ~process_enabled

\* the worker of a run has returned and its completion handler has not run
\* yet: the flag still keeps a second worker from starting
C26_Witness ==
    /\ pc = "done"
    /\ threads = 0
    /\ after_queue = 1
    /\ is_processing_flag
    /\ ~ENABLED start_processing

\* ---------------------------------------------------------------- C27
RunOver ==
    /\ pc = "idle"
    /\ completed = 1
    /\ after_queue = 0
    /\ ~is_processing_flag
    /\ process_enabled
    /\ ~processor
    /\ ~generator

\* C27: every run that is started eventually calls processing_completed,
\* exactly once, whatever exception load, standardization or generation
\* raises; once its handler has run the flag is false, the Process button is
\* enabled and the processor and generator references are cleared.
C27_RunCompletesOnce ==
    /\ [](completed <= 1)
    /\ [](pc = "done" => (completed = 1 /\ outcome # "none"))
    /\ []((pc = "idle" /\ outcome # "none") => RunOver)
    /\ (is_processing_flag ~> RunOver)

\* a run whose standardization raised has been completed by its handler
C27_Witness ==
    /\ RunOver
    /\ raised = "standardize"
    /\ outcome = "failed"
    /\ excel = <<>>

\* ---------------------------------------------------------------- C28
Summary == IF excel = <<>> THEN <<>> ELSE excel[3]
RECURSIVE SumTotalCalls(_)
SumTotalCalls(rows) ==
    IF rows = <<>> THEN 0 ELSE Head(rows).TotalCalls + SumTotalCalls(Tail(rows))
NonBlank == {j \in DOMAIN Written : strip(Written[j].Counterparty) # <<>>}

\* C28: in every row of the Summary sheet Total Calls = Out Calls + In Calls
\* + Out Sms + In Sms and Other Calls is 0; the Total Calls of all rows add
\* up to the number of merged records with a non-blank counterparty.
C28_SummaryTotals ==
    excel # <<>> =>
        /\ \A g \in DOMAIN Summary :
              /\ Summary[g].TotalCalls =
                    Summary[g].OutCalls + Summary[g].InCalls
                        + Summary[g].OutSms + Summary[g].InSms
              /\ Summary[g].OtherCalls = 0
              /\ Summary[g].TotalCalls > 0
        /\ \A g, h \in DOMAIN Summary :
              (Summary[g].CdrNo = Summary[h].CdrNo
                    /\ Summary[g].BParty = Summary[h].BParty) => g = h
        /\ SumTotalCalls(Summary) = Cardinality(NonBlank)

\* a workbook of a call and a record whose counterparty is blank: the
\* Summary has one row, for the call
C28_Witness ==
    /\ excel # <<>>
    /\ Len(Written) = 2
    /\ Cardinality(NonBlank) = 1
    /\ Len(Summary) = 1
    /\ Summary[1].TotalCalls = 1
    /\ Summary[1].OutCalls = 1
    /\ Summary[1].TotalDuration = 75

\* ---------------------------------------------------------------- C29
NightMapping == IF excel = <<>> THEN <<>> ELSE excel[4]
DayMapping == IF excel = <<>> THEN <<>> ELSE excel[5]
\* the records a sheet shows
Shown(sheet) == {sheet[r].label : r \in {r \in DOMAIN sheet : sheet[r].record}}

\* C29: Night_Mapping and Day_Mapping partition the merged dataset: a record
\* is in Night_Mapping iff is_night is true, in Day_Mapping otherwise (so
\* with a null timestamp), and the row counts add up to the number of records.
C29_NightDayPartition ==
    excel # <<>> =>
        /\ \A j \in DOMAIN Written :
              /\ j \in Shown(NightMapping) <=> Written[j].IsNight
              /\ j \in Shown(DayMapping) <=> ~Written[j].IsNight
              /\ Written[j].start_dt = NaT => j \in Shown(DayMapping)
        /\ Len(NightMapping) + Len(DayMapping) = Len(Written)

\* ---------------------------------------------------------------- C30
\* C30: whether a call record is listed in ISDCalls depends only on its own
\* counterparty: it is listed in the workbook of the merged dataset iff it is
\* listed in the workbook of the dataset that has this record alone.
C30_IsdIndependentOfOthers ==
    \A j \in DOMAIN Written :
        ~IsSMS(Written[j].CallTypeStd) =>
            (j \in ISDCalls <=> create_isd_calls_sheet(<<Written[j]>>) # <<>>)

====
